---- MODULE Spec2Model ----
(***************************************************************************)
(* The HTTP front-end of a Certificate Transparency log node:              *)
(* cpp/server/handler.cc (HttpHandler: dispatch, proxy interceptor,        *)
(* staleness monitor, read and write endpoints) and                        *)
(* cpp/log/cert_submission_handler.cc (CertSubmissionHandler).             *)
(***************************************************************************)
EXTENDS Integers, Sequences, FiniteSets, TLC

\* ------------------------------------------------------------------ bounds

\* Request slots: the number of requests that can be in flight at once.
NumReq == 1

\* The longest certificate chain handed to a submission entry point.
MaxChainLen == 2

\* The most key=value pairs of a query string handed to the parameter helpers.
MaxQueryPairs == 2

\* How many times the cluster controller changes its staleness answer.
MaxCtrlChanges == 1

\* FLAGS_max_leaf_entries_per_response, scaled down from its default of 1000.
max_leaf_entries_per_response == 2

\* ------------------------------------------------------- libevent constants

HTTP_OK == 200
HTTP_BADREQUEST == 400
HTTP_BADMETHOD == 405
HTTP_INTERNAL == 500
HTTP_SERVUNAVAIL == 503

\* ------------------------------------------------------------------- state

VARIABLES
  cfg,            \* construction arguments and flags: cert_checker_, frontend_,
                  \* FLAGS_accept_certificates, FLAGS_accept_signed_data
  registered,     \* paths for which HttpHandler::Add registered a handler
  ctrl,           \* the cluster controller's answer: [stale, ver]
  node_is_stale,  \* HttpHandler::node_is_stale_
  flagVer,        \* ghost: the controller version node_is_stale_ was observed at
  mutex,          \* HttpHandler::mutex_: "free" or its holder
  taskActive,     \* task_.task()->IsActive()
  pending,        \* child tasks of task_ waiting in the event base's timer
  tick,           \* the running UpdateNodeStaleness callback: [pc, obs, obsVer]
  doneVer,        \* ghost: what the most recently completed tick observed
  dtor,           \* ~HttpHandler: "none", "waiting", "returned"
  reqs,           \* request slots; the field ran records which thread ("io"
                  \* or "worker") consulted a backend or forwarded the request
  pool,           \* the worker pool's queue of tasks
  call            \* the last call of a CertSubmissionHandler entry point:
                  \* [fn, input, status, entry, validator, result]

vars == <<cfg, registered, ctrl, node_is_stale, flagVer, mutex, taskActive,
          pending, tick, doneVer, dtor, reqs, pool, call>>

Requests == 1..NumReq

ReadPaths == {"get-entries", "get-roots", "get-proof-by-hash", "get-sth",
              "get-sth-consistency"}
WritePaths == {"add-chain", "add-pre-chain", "add-signed-data"}
Paths == ReadPaths \cup WritePaths

Methods == {"GET", "POST", "PUT"}

Min(a, b) == IF a < b THEN a ELSE b

\* ------------------------------------------------------------ query parsing

\* The widths of int and long, scaled down from 32 and 64 bits so that the
\* model checker's own integers can hold a long.
IntMax == 2^7 - 1
IntMod == 2^8
LongMax == 2^15 - 1
LongMin == -(2^15)

Digits == {"0", "1", "2", "3", "4", "5", "6", "7", "8", "9"}

DigitVal(c) ==
  CASE c = "0" -> 0 [] c = "1" -> 1 [] c = "2" -> 2 [] c = "3" -> 3
    [] c = "4" -> 4 [] c = "5" -> 5 [] c = "6" -> 6 [] c = "7" -> 7
    [] c = "8" -> 8 [] c = "9" -> 9

\* A string is a sequence of one-character strings.
RECURSIVE SkipSpace(_)
SkipSpace(s) == IF s # <<>> /\ Head(s) = " " THEN SkipSpace(Tail(s)) ELSE s

\* The digits of strtol's subject sequence, accumulated with saturation:
\* [num, range] where range says the value left the range of long.
RECURSIVE AccDigits(_, _, _, _)
AccDigits(s, neg, acc, range) ==
  IF s = <<>> \/ Head(s) \notin Digits
  THEN [num |-> acc, range |-> range]
  ELSE LET d == DigitVal(Head(s))
           n == IF neg THEN acc * 10 - d ELSE acc * 10 + d
       IN IF range \/ n > LongMax \/ n < LongMin
          THEN AccDigits(Tail(s), neg, IF neg THEN LongMin ELSE LongMax, TRUE)
          ELSE AccDigits(Tail(s), neg, n, FALSE)

\* strtol(value, NULL, 10): [num, errno]; errno is "ERANGE" on overflow and is
\* left at 0 otherwise, also when no digits are found (the result is then 0).
StrToL(s) ==
  LET t == SkipSpace(s)
      signed == t # <<>> /\ Head(t) \in {"-", "+"}
      neg == t # <<>> /\ Head(t) = "-"
      r == AccDigits(IF signed THEN Tail(t) ELSE t, neg, 0, FALSE)
  IN [num |-> r.num, errno |-> IF r.range THEN "ERANGE" ELSE "0"]

\* The conversion long -> int of "retval = num".
ToInt(num) ==
  LET m == num % IntMod IN IF m > IntMax THEN m - IntMod ELSE m

\* ParseQuery: the multimap of a request's query, as key -> values in insertion
\* order; empty when the query string does not parse.
QueryKeys == {"start", "end", "include_scts", "hash", "tree_size", "first",
              "second"}

ParseQuery(raw) ==
  [k \in QueryKeys |->
     IF raw.ok
     THEN SelectSeq(raw.pairs, LAMBDA p : p[1] = k)
     ELSE <<>>]

\* GetParam without the flag for duplicate parameters: the first value is
\* taken.
GetParamFirstValue(query, param, value) ==
  LET vs == query[param]
  IN IF vs = <<>>
     THEN [found |-> FALSE, value |-> value]
     ELSE [found |-> TRUE, value |-> vs[1][2]]

\* GetParam: [found, value], value being the caller's string after the call; a
\* duplicated parameter is not found.
GetParam(query, param, value) ==
  LET vs == query[param]
  IN IF vs = <<>>
     THEN [found |-> FALSE, value |-> value]
     ELSE IF Len(vs) = 1
          THEN [found |-> TRUE, value |-> vs[1][2]]
          ELSE [found |-> FALSE, value |-> value]

GetIntParam(query, param) ==
  LET p == GetParam(query, param, <<>>)
      r == StrToL(p.value)
  IN IF ~p.found THEN -1
     ELSE IF r.errno # "0" \/ ToInt(r.num) # r.num THEN -1
          ELSE r.num

GetBoolParam(query, param) ==
  LET p == GetParam(query, param, <<>>)
  IN IF p.found THEN p.value = <<"t", "r", "u", "e">> ELSE FALSE


\* ----------------------------------------------------------------- replies

NoReply == [code |-> 0, kind |-> "none", msg |-> "", entries |-> <<>>]

\* JsonOutput::SendError and JsonOutput::SendJsonReply.
SendError(code, msg) ==
  [code |-> code, kind |-> "error", msg |-> msg, entries |-> <<>>]

SendJsonReply(code, kind, entries) ==
  [code |-> code, kind |-> kind, msg |-> "", entries |-> entries]

NoTask == [fn |-> "none", req |-> 0, sub |-> <<>>]

\* What a handler did on the thread that ran it: the reply it sent (if any),
\* the worker task it scheduled (if any), the backends it consulted.
Result(reply, task, backends) ==
  [reply |-> reply, task |-> task, backends |-> backends]

Replied(reply, backends) == Result(reply, NoTask, backends)

\* --------------------------------------------------------- read endpoints

\* ReadOnlyDatabase::ScanEntries(start) and Iterator::GetNextEntry: the
\* entries with sequence number >= cursor, in order; -1 when exhausted.
NextEntry(db, cursor) ==
  IF \E s \in db.present : s >= cursor
  THEN CHOOSE s \in db.present :
         s >= cursor /\ \A t \in db.present : t >= cursor => s <= t
  ELSE -1

\* The loop of BlockingGetEntries without its test of the entry's sequence
\* number.
RECURSIVE ScanLoopNoSequenceTest(_, _, _, _, _)
ScanLoopNoSequenceTest(db, i, end, cursor, acc) ==
  IF i > end
  THEN [failed |-> FALSE, entries |-> acc]
  ELSE LET seq == NextEntry(db, cursor)
       IN IF seq = -1
          THEN [failed |-> FALSE, entries |-> acc]
          ELSE IF seq \in db.corrupt
               THEN [failed |-> TRUE, entries |-> acc]
               ELSE ScanLoopNoSequenceTest(db, i + 1, end, seq + 1,
                                           Append(acc, seq))

\* The loop of BlockingGetEntries from i to end with the iterator at cursor
\* and json_entries = acc.
RECURSIVE ScanLoop(_, _, _, _, _)
ScanLoop(db, i, end, cursor, acc) ==
  IF i > end
  THEN [failed |-> FALSE, entries |-> acc]
  ELSE LET seq == NextEntry(db, cursor)
       IN IF seq = -1 \/ seq # i
          THEN [failed |-> FALSE, entries |-> acc]
          ELSE IF seq \in db.corrupt
               THEN [failed |-> TRUE, entries |-> acc]
               ELSE ScanLoop(db, i + 1, end, seq + 1, Append(acc, seq))

BlockingGetEntries(db, start, end, include_scts) ==
  LET scan == ScanLoop(db, start, end, start, <<>>)
  IN IF scan.failed
     THEN Replied(SendError(HTTP_INTERNAL, "Serialization failed."), {"db"})
     ELSE IF Len(scan.entries) < 1
          THEN Replied(SendError(HTTP_BADREQUEST, "Entry not found."), {"db"})
          ELSE Replied(SendJsonReply(HTTP_OK, "entries", scan.entries), {"db"})

GetEntries(method, raw, db) ==
  IF method # "GET"
  THEN Replied(SendError(HTTP_BADMETHOD, "Method not allowed."), {})
  ELSE
    LET query == ParseQuery(raw)
        start == GetIntParam(query, "start")
        end == GetIntParam(query, "end")
    IN IF start < 0
       THEN Replied(SendError(HTTP_BADREQUEST,
                              "Missing or invalid \"start\" parameter."), {})
       ELSE IF end < start
            THEN Replied(SendError(HTTP_BADREQUEST,
                                   "Missing or invalid \"end\" parameter."), {})
            ELSE BlockingGetEntries(
                   db,
                   start,
                   Min(end, start + max_leaf_entries_per_response),
                   GetBoolParam(query, "include_scts"))

\* The trust store of the certificate checker and Cert::DerEncoding.
TrustedCertificates == <<"ca">>

DerEncodingOk(cert) == cert # "noder"

GetRoots(method) ==
  IF method # "GET"
  THEN Replied(SendError(HTTP_BADMETHOD, "Method not allowed."), {})
  ELSE IF \E i \in 1..Len(TrustedCertificates) :
            ~DerEncodingOk(TrustedCertificates[i])
       THEN Replied(SendError(HTTP_INTERNAL, "Serialisation failed."),
                    {"cert_checker"})
       ELSE Replied(SendJsonReply(HTTP_OK, "certificates", <<>>),
                    {"cert_checker"})

\* LogLookup: the tree covers the entries the database holds contiguously from
\* 0; the leaf hash of entry i is the string "h" i. Among the backends a
\* handler consulted, "log_lookup" is GetSTH() and "audit_proof" AuditProof().
RECURSIVE Contiguous(_, _)
Contiguous(db, n) == IF n \in db.present THEN Contiguous(db, n + 1) ELSE n

SthTreeSize(db) == Contiguous(db, 0)

AuditProofFound(hash, tree_size) ==
  /\ Len(hash) = 2
  /\ hash[1] = "h"
  /\ hash[2] \in Digits
  /\ DigitVal(hash[2]) < tree_size

\* util::FromBase64: empty when the text is not base64.
FromBase64(v) ==
  IF \E i \in 1..Len(v) : v[i] \in {" ", "!", "-"} THEN <<>> ELSE v

\* GetProof without its test of tree_size.
GetProofNoTreeSizeTest(method, raw, db) ==
  IF method # "GET"
  THEN Replied(SendError(HTTP_BADMETHOD, "Method not allowed."), {})
  ELSE
    LET query == ParseQuery(raw)
        b64_hash == GetParam(query, "hash", <<>>)
        hash == FromBase64(b64_hash.value)
        tree_size == GetIntParam(query, "tree_size")
    IN IF ~b64_hash.found
       THEN Replied(SendError(HTTP_BADREQUEST,
                              "Missing or invalid \"hash\" parameter."), {})
       ELSE IF hash = <<>>
            THEN Replied(SendError(HTTP_BADREQUEST,
                                   "Invalid \"hash\" parameter."), {})
            ELSE IF ~AuditProofFound(hash, tree_size)
                 THEN Replied(SendError(HTTP_BADREQUEST,
                                        "Couldn't find hash."),
                              {"audit_proof"})
                 ELSE Replied(SendJsonReply(HTTP_OK, "proof", <<>>),
                              {"audit_proof"})

GetProof(method, raw, db) ==
  IF method # "GET"
  THEN Replied(SendError(HTTP_BADMETHOD, "Method not allowed."), {})
  ELSE
    LET query == ParseQuery(raw)
        b64_hash == GetParam(query, "hash", <<>>)
        hash == FromBase64(b64_hash.value)
        tree_size == GetIntParam(query, "tree_size")
    IN IF ~b64_hash.found
       THEN Replied(SendError(HTTP_BADREQUEST,
                              "Missing or invalid \"hash\" parameter."), {})
       ELSE IF hash = <<>>
            THEN Replied(SendError(HTTP_BADREQUEST,
                                   "Invalid \"hash\" parameter."), {})
            ELSE IF tree_size < 0 \/ tree_size > SthTreeSize(db)
                 THEN Replied(SendError(HTTP_BADREQUEST,
                          "Missing or invalid \"tree_size\" parameter."),
                          IF tree_size < 0 THEN {} ELSE {"log_lookup"})
                 ELSE IF ~AuditProofFound(hash, tree_size)
                      THEN Replied(SendError(HTTP_BADREQUEST,
                                             "Couldn't find hash."),
                                   {"log_lookup", "audit_proof"})
                      ELSE Replied(SendJsonReply(HTTP_OK, "proof", <<>>),
                                   {"log_lookup", "audit_proof"})

\* GetSTH without its method check.
GetSTHAnyMethod(method) ==
  Replied(SendJsonReply(HTTP_OK, "sth", <<>>), {"log_lookup"})

GetSTH(method) ==
  IF method # "GET"
  THEN Replied(SendError(HTTP_BADMETHOD, "Method not allowed."), {})
  ELSE Replied(SendJsonReply(HTTP_OK, "sth", <<>>), {"log_lookup"})

GetConsistency(method, raw) ==
  IF method # "GET"
  THEN Replied(SendError(HTTP_BADMETHOD, "Method not allowed."), {})
  ELSE
    LET query == ParseQuery(raw)
        first == GetIntParam(query, "first")
        second == GetIntParam(query, "second")
    IN IF first < 0
       THEN Replied(SendError(HTTP_BADREQUEST,
                              "Missing or invalid \"first\" parameter."), {})
       ELSE IF second < first
            THEN Replied(SendError(HTTP_BADREQUEST,
                                   "Missing or invalid \"second\" parameter."),
                         {})
            ELSE Replied(SendJsonReply(HTTP_OK, "consistency", <<>>),
                         {"log_lookup"})


\* ----------------------------------------------------- submission handling

Status(code, msg) == [code |-> code, msg |-> msg]

StatusOK == Status("OK", "")

\* Certificates are named by what they are: "leaf" and "noder" are issued by
\* the trusted root "ca", "pre" is a precertificate issued by "ca", "evil" is
\* self-signed and untrusted; "noder" cannot be DER-encoded. "embedded" and
\* "notbs" carry the embedded SCT list extension, and the TBS of "notbs" cannot
\* be re-encoded; looking for the extension in "badext" fails; the SPKI digest
\* of "nospki" cannot be computed. A chain element "notstring" is not a JSON
\* string and "garbage" does not load as a certificate.
Certs == {"leaf", "pre", "noder", "evil", "ca", "embedded", "notbs", "badext",
          "nospki"}

\* Cert::HasExtension(NID_ctEmbeddedSignedCertificateTimestampList).
HasExtension(cert) ==
  CASE cert \in {"embedded", "notbs"} -> "TRUE"
    [] cert = "badext" -> "ERROR"
    [] OTHER -> "FALSE"

\* Cert::SPKISha256Digest succeeds.
SPKISha256DigestOk(cert) == cert # "nospki"

\* TbsCertificate: loads, drops the extension and DER-encodes.
TbsDerEncodingOk(cert) == cert # "notbs"

\* ct::LogEntry: the type tag, the payload fields that are set and the values
\* written to them (a list of one value for a singular field).
NoEntry == [type |-> "NONE", set |-> {}, val |-> [f \in {} |-> <<>>]]

set_type(entry, type) == [entry EXCEPT !.type = type]

\* entry->mutable_...(): the fields become set, their values are untouched.
SetFields(entry, fields) == [entry EXCEPT !.set = @ \cup fields]

\* entry->...->set_field(value) and add_field(value).
SetValue(entry, field, value) ==
  [type |-> entry.type, set |-> entry.set \cup {field},
   val |-> [f \in DOMAIN entry.val \cup {field} |->
              IF f = field THEN <<value>> ELSE entry.val[f]]]

AddValue(entry, field, value) ==
  [type |-> entry.type, set |-> entry.set \cup {field},
   val |-> [f \in DOMAIN entry.val \cup {field} |->
              IF f # field THEN entry.val[f]
              ELSE IF field \in DOMAIN entry.val
                   THEN Append(entry.val[field], value)
                   ELSE <<value>>]]

\* The bytes Cert::DerEncoding and Cert::SPKISha256Digest give for a
\* certificate, and the DER of its TBS with or without the embedded SCT list.
DerEncoding(cert) == <<"der", cert>>

SPKISha256Digest(cert) == <<"sha256 of spki", cert>>

TbsDer(cert, sct_list) == <<"tbs", cert, sct_list>>

\* CertChecker::CheckCertChain.
CheckCertChain(chain) ==
  IF chain[1] = "ca" \/ (chain[1] \in {"leaf", "pre", "noder"} /\
                         (Len(chain) = 1 \/ chain[2] = "ca"))
  THEN StatusOK
  ELSE Status("UNAUTHENTICATED", "chain does not anchor")

\* CertChecker::CheckPreCertChain.
CheckPreCertChain(chain) ==
  IF chain = <<>>
  THEN Status("INVALID_ARGUMENT", "empty submission")
  ELSE IF chain[1] # "pre"
       THEN Status("INVALID_ARGUMENT", "not a precertificate")
       ELSE IF Len(chain) < 2
            THEN Status("FAILED_PRECONDITION", "missing issuer")
            ELSE IF chain[2] # "ca"
                 THEN Status("UNAUTHENTICATED", "chain does not anchor")
                 ELSE StatusOK

\* CertChecker::CheckSignedData on <<keyid, data, signature>>.
CheckSignedData(data) ==
  IF data[1] = "key" /\ data[3] = "goodsig"
  THEN StatusOK
  ELSE Status("UNAUTHENTICATED", "signature does not verify")

\* The chain as the cert checker leaves it when it accepts it: cut after the
\* first trusted root.
ValidatedChain(chain) ==
  IF \E i \in 1..Len(chain) : chain[i] = "ca"
  THEN SubSeq(chain, 1,
              CHOOSE i \in 1..Len(chain) :
                chain[i] = "ca" /\ \A j \in 1..(i - 1) : chain[j] # "ca")
  ELSE chain

\* The first certificate after the leaf that does not DER-encode, 0 when all
\* do.
FirstDerFailure(chain) ==
  IF \E i \in 2..Len(chain) : ~DerEncodingOk(chain[i])
  THEN CHOOSE i \in 2..Len(chain) :
         ~DerEncodingOk(chain[i]) /\ \A j \in 2..(i - 1) : DerEncodingOk(chain[j])
  ELSE 0

\* The loop "for (i = 1; i < chain->Length(); ++i) add_...(der_cert)" as far as
\* it gets: the certificates from..to of the chain added to a repeated field.
RECURSIVE AddChainDer(_, _, _, _, _)
AddChainDer(entry, field, chain, from, to) ==
  IF from > to
  THEN entry
  ELSE AddChainDer(AddValue(entry, field, DerEncoding(chain[from])), field,
                   chain, from + 1, to)

\* What a submission entry point hands back: its status, the entry it wrote
\* into and the cert checker calls it made.
Returned(status, entry, validator) ==
  [status |-> status, entry |-> entry, validator |-> validator]

\* CertSubmissionHandler::SerializedTbs: [ok, result]; result is assigned only
\* on success.
SerializedTbs(cert) ==
  IF HasExtension(cert) \notin {"TRUE", "FALSE"}
  THEN [ok |-> FALSE, result |-> <<>>]
  ELSE IF ~TbsDerEncodingOk(cert)
       THEN [ok |-> FALSE, result |-> <<>>]
       ELSE [ok |-> TRUE, result |-> TbsDer(cert, "without sct list")]

\* X509ChainToEntry with the tag of the other branch in its precertificate
\* branch.
X509ChainToEntryOneTag(chain, entry) ==
  IF chain = <<>>
  THEN [ok |-> FALSE, entry |-> entry]
  ELSE IF HasExtension(chain[1]) \notin {"TRUE", "FALSE"}
  THEN [ok |-> FALSE, entry |-> entry]
  ELSE IF HasExtension(chain[1]) = "TRUE"
  THEN IF Len(chain) < 2
       THEN [ok |-> FALSE, entry |-> entry]
       ELSE LET tagged == set_type(entry, "X509_ENTRY")
                hashed == SetValue(tagged,
                            "precert_entry.pre_cert.issuer_key_hash",
                            SPKISha256Digest(chain[2]))
                tbs == SerializedTbs(chain[1])
            IN IF ~SPKISha256DigestOk(chain[2])
               THEN [ok |-> FALSE, entry |-> tagged]
               ELSE IF ~tbs.ok
                    THEN [ok |-> FALSE, entry |-> hashed]
                    ELSE [ok |-> TRUE,
                          entry |-> SetValue(hashed,
                            "precert_entry.pre_cert.tbs_certificate",
                            tbs.result)]
  ELSE LET tagged == set_type(entry, "X509_ENTRY")
       IN IF ~DerEncodingOk(chain[1])
          THEN [ok |-> FALSE, entry |-> tagged]
          ELSE [ok |-> TRUE,
                entry |-> SetValue(tagged, "x509_entry.leaf_certificate",
                                   DerEncoding(chain[1]))]

\* X509ChainToEntry taking the key hash from the leaf, CertAt(0), instead of
\* the issuer.
X509ChainToEntryLeafKeyHash(chain, entry) ==
  IF chain = <<>>
  THEN [ok |-> FALSE, entry |-> entry]
  ELSE IF HasExtension(chain[1]) \notin {"TRUE", "FALSE"}
  THEN [ok |-> FALSE, entry |-> entry]
  ELSE IF HasExtension(chain[1]) = "TRUE"
  THEN IF Len(chain) < 2
       THEN [ok |-> FALSE, entry |-> entry]
       ELSE LET tagged == set_type(entry, "PRECERT_ENTRY")
                hashed == SetValue(tagged,
                            "precert_entry.pre_cert.issuer_key_hash",
                            SPKISha256Digest(chain[1]))
                tbs == SerializedTbs(chain[1])
            IN IF ~SPKISha256DigestOk(chain[2])
               THEN [ok |-> FALSE, entry |-> tagged]
               ELSE IF ~tbs.ok
                    THEN [ok |-> FALSE, entry |-> hashed]
                    ELSE [ok |-> TRUE,
                          entry |-> SetValue(hashed,
                            "precert_entry.pre_cert.tbs_certificate",
                            tbs.result)]
  ELSE LET tagged == set_type(entry, "X509_ENTRY")
       IN IF ~DerEncodingOk(chain[1])
          THEN [ok |-> FALSE, entry |-> tagged]
          ELSE [ok |-> TRUE,
                entry |-> SetValue(tagged, "x509_entry.leaf_certificate",
                                   DerEncoding(chain[1]))]

\* X509ChainToEntry taking the extension check's answer as a boolean.
X509ChainToEntryBooleanExtension(chain, entry) ==
  IF chain = <<>>
  THEN [ok |-> FALSE, entry |-> entry]
  ELSE IF FALSE
  THEN [ok |-> FALSE, entry |-> entry]
  ELSE IF HasExtension(chain[1]) = "TRUE"
  THEN IF Len(chain) < 2
       THEN [ok |-> FALSE, entry |-> entry]
       ELSE LET tagged == set_type(entry, "PRECERT_ENTRY")
                hashed == SetValue(tagged,
                            "precert_entry.pre_cert.issuer_key_hash",
                            SPKISha256Digest(chain[2]))
                tbs == SerializedTbs(chain[1])
            IN IF ~SPKISha256DigestOk(chain[2])
               THEN [ok |-> FALSE, entry |-> tagged]
               ELSE IF ~tbs.ok
                    THEN [ok |-> FALSE, entry |-> hashed]
                    ELSE [ok |-> TRUE,
                          entry |-> SetValue(hashed,
                            "precert_entry.pre_cert.tbs_certificate",
                            tbs.result)]
  ELSE LET tagged == set_type(entry, "X509_ENTRY")
       IN IF ~DerEncodingOk(chain[1])
          THEN [ok |-> FALSE, entry |-> tagged]
          ELSE [ok |-> TRUE,
                entry |-> SetValue(tagged, "x509_entry.leaf_certificate",
                                   DerEncoding(chain[1]))]

\* CertSubmissionHandler::X509ChainToEntry: [ok, entry].
X509ChainToEntry(chain, entry) ==
  IF chain = <<>>
  THEN [ok |-> FALSE, entry |-> entry]
  ELSE IF HasExtension(chain[1]) \notin {"TRUE", "FALSE"}
  THEN [ok |-> FALSE, entry |-> entry]
  ELSE IF HasExtension(chain[1]) = "TRUE"
  THEN IF Len(chain) < 2
       THEN [ok |-> FALSE, entry |-> entry]
       ELSE LET tagged == set_type(entry, "PRECERT_ENTRY")
                hashed == SetValue(tagged,
                            "precert_entry.pre_cert.issuer_key_hash",
                            SPKISha256Digest(chain[2]))
                tbs == SerializedTbs(chain[1])
            IN IF ~SPKISha256DigestOk(chain[2])
               THEN [ok |-> FALSE, entry |-> tagged]
               ELSE IF ~tbs.ok
                    THEN [ok |-> FALSE, entry |-> hashed]
                    ELSE [ok |-> TRUE,
                          entry |-> SetValue(hashed,
                            "precert_entry.pre_cert.tbs_certificate",
                            tbs.result)]
  ELSE LET tagged == set_type(entry, "X509_ENTRY")
       IN IF ~DerEncodingOk(chain[1])
          THEN [ok |-> FALSE, entry |-> tagged]
          ELSE [ok |-> TRUE,
                entry |-> SetValue(tagged, "x509_entry.leaf_certificate",
                                   DerEncoding(chain[1]))]

\* ProcessX509Submission calling the cert checker before its test for an empty
\* chain.
ProcessX509SubmissionCheckFirst(chain, entry) ==
  LET status == IF chain = <<>>
                THEN Status("INVALID_ARGUMENT", "empty submission")
                ELSE CheckCertChain(chain)
      v == ValidatedChain(chain)
  IN IF status.code # "OK"
     THEN Returned(status, entry, {"CheckCertChain"})
     ELSE IF ~DerEncodingOk(v[1])
     THEN Returned(Status("INTERNAL", "could not DER-encode the chain"), entry,
                   {"CheckCertChain"})
     ELSE LET leaf == SetValue(entry, "x509_entry.leaf_certificate",
                               DerEncoding(v[1]))
              bad == FirstDerFailure(v)
              filled == AddChainDer(leaf, "x509_entry.certificate_chain", v, 2,
                                    IF bad = 0 THEN Len(v) ELSE bad - 1)
          IN IF bad # 0
             THEN Returned(Status("INTERNAL", "could not DER-encode the chain"),
                           filled, {"CheckCertChain"})
             ELSE Returned(StatusOK, set_type(filled, "X509_ENTRY"),
                           {"CheckCertChain"})

\* ProcessX509Submission whose loop over the chain starts at the leaf.
ProcessX509SubmissionLoopFromLeaf(chain, entry) ==
  IF chain = <<>>
  THEN Returned(Status("INVALID_ARGUMENT", "empty submission"), entry, {})
  ELSE IF CheckCertChain(chain).code # "OK"
  THEN Returned(CheckCertChain(chain), entry, {"CheckCertChain"})
  ELSE LET v == ValidatedChain(chain)
       IN IF ~DerEncodingOk(v[1])
          THEN Returned(Status("INTERNAL", "could not DER-encode the chain"),
                        entry, {"CheckCertChain"})
          ELSE LET leaf == SetValue(entry, "x509_entry.leaf_certificate",
                                    DerEncoding(v[1]))
                   bad == FirstDerFailure(v)
                   filled == AddChainDer(leaf, "x509_entry.certificate_chain",
                                         v, 1,
                                         IF bad = 0 THEN Len(v) ELSE bad - 1)
               IN IF bad # 0
                  THEN Returned(Status("INTERNAL",
                                       "could not DER-encode the chain"),
                                filled, {"CheckCertChain"})
                  ELSE Returned(StatusOK, set_type(filled, "X509_ENTRY"),
                                {"CheckCertChain"})

\* CertSubmissionHandler::ProcessX509Submission: the status it returns, the
\* entry it leaves, the cert checker calls it made.
ProcessX509Submission(chain, entry) ==
  IF chain = <<>>
  THEN Returned(Status("INVALID_ARGUMENT", "empty submission"), entry, {})
  ELSE IF CheckCertChain(chain).code # "OK"
  THEN Returned(CheckCertChain(chain), entry, {"CheckCertChain"})
  ELSE LET v == ValidatedChain(chain)
       IN IF ~DerEncodingOk(v[1])
          THEN Returned(Status("INTERNAL", "could not DER-encode the chain"),
                        entry, {"CheckCertChain"})
          ELSE LET leaf == SetValue(entry, "x509_entry.leaf_certificate",
                                    DerEncoding(v[1]))
                   bad == FirstDerFailure(v)
                   filled == AddChainDer(leaf, "x509_entry.certificate_chain",
                                         v, 2,
                                         IF bad = 0 THEN Len(v) ELSE bad - 1)
               IN IF bad # 0
                  THEN Returned(Status("INTERNAL",
                                       "could not DER-encode the chain"),
                                filled, {"CheckCertChain"})
                  ELSE Returned(StatusOK, set_type(filled, "X509_ENTRY"),
                                {"CheckCertChain"})

\* CertSubmissionHandler::ProcessPreCertSubmission: the status it returns, the
\* entry it leaves, the cert checker calls it made. The two mutable_ calls
\* that make the checker's output arguments come before the check; the
\* checker writes them when it accepts the chain.
ProcessPreCertSubmission(chain, entry) ==
  LET pre_cert == SetFields(entry,
                    {"precert_entry.pre_cert.issuer_key_hash",
                     "precert_entry.pre_cert.tbs_certificate"})
  IN IF CheckPreCertChain(chain).code # "OK"
     THEN Returned(CheckPreCertChain(chain), pre_cert, {"CheckPreCertChain"})
     ELSE LET v == ValidatedChain(chain)
              checked == SetValue(
                           SetValue(pre_cert,
                                    "precert_entry.pre_cert.issuer_key_hash",
                                    SPKISha256Digest(v[2])),
                           "precert_entry.pre_cert.tbs_certificate",
                           TbsDer(v[1], "without poison"))
          IN IF ~DerEncodingOk(v[1])
             THEN Returned(Status("INTERNAL", "could not DER-encode the chain"),
                           checked, {"CheckPreCertChain"})
             ELSE LET leaf == SetValue(checked, "precert_entry.pre_certificate",
                                       DerEncoding(v[1]))
                      bad == FirstDerFailure(v)
                      filled == AddChainDer(leaf,
                                  "precert_entry.precertificate_chain", v, 2,
                                  IF bad = 0 THEN Len(v) ELSE bad - 1)
                  IN IF bad # 0
                     THEN Returned(Status("INTERNAL",
                                          "could not DER-encode the chain"),
                                   filled, {"CheckPreCertChain"})
                     ELSE Returned(StatusOK, set_type(filled, "PRECERT_ENTRY"),
                                   {"CheckPreCertChain"})

\* CertSubmissionHandler::ProcessSignedDataSubmission: the status it returns,
\* the entry it leaves, the cert checker calls it made.
ProcessSignedDataSubmission(data, entry) ==
  IF CheckSignedData(data).code # "OK"
  THEN Returned(CheckSignedData(data), entry, {"CheckSignedData"})
  ELSE Returned(StatusOK,
                set_type(
                  SetValue(
                    SetValue(
                      SetValue(entry, "signed_data_entry.keyid", data[1]),
                      "signed_data_entry.data", data[2]),
                    "signed_data_entry.signature", data[3]),
                  "SIGNED_DATA_ENTRY"),
                {"CheckSignedData"})

\* No entry point has been called.
NoCall ==
  [fn |-> "none", input |-> <<>>, status |-> StatusOK, entry |-> NoEntry,
   validator |-> {}, result |-> <<>>]

\* The chains and signed data handed to the entry points.
Chains == UNION {[1..n -> Certs] : n \in 0..MaxChainLen}

SignedDatas ==
  {<<keyid, "d", signature>> :
     keyid \in {"key", "otherkey"}, signature \in {"goodsig", "badsig"}}

\* A caller hands a submission and a fresh LogEntry to an entry point.
CallFrame ==
  UNCHANGED <<cfg, registered, ctrl, node_is_stale, flagVer, mutex, taskActive,
              pending, tick, doneVer, dtor, reqs, pool>>

CallProcessX509Submission ==
  /\ call = NoCall
  /\ \E chain \in Chains :
       LET ret == ProcessX509Submission(chain, NoEntry)
       IN call' = [fn |-> "ProcessX509Submission", input |-> chain,
                   status |-> ret.status, entry |-> ret.entry,
                   validator |-> ret.validator, result |-> <<>>]
  /\ CallFrame

CallProcessPreCertSubmission ==
  /\ call = NoCall
  /\ \E chain \in Chains :
       LET ret == ProcessPreCertSubmission(chain, NoEntry)
       IN call' = [fn |-> "ProcessPreCertSubmission", input |-> chain,
                   status |-> ret.status, entry |-> ret.entry,
                   validator |-> ret.validator, result |-> <<>>]
  /\ CallFrame

CallProcessSignedDataSubmission ==
  /\ call = NoCall
  /\ \E data \in SignedDatas :
       LET ret == ProcessSignedDataSubmission(data, NoEntry)
       IN call' = [fn |-> "ProcessSignedDataSubmission", input |-> data,
                   status |-> ret.status, entry |-> ret.entry,
                   validator |-> ret.validator, result |-> <<>>]
  /\ CallFrame

\* X509ChainToEntry returns a bool: true is recorded as status OK, false as
\* status UNKNOWN.
CallX509ChainToEntry ==
  /\ call = NoCall
  /\ \E chain \in Chains :
       LET ret == X509ChainToEntry(chain, NoEntry)
       IN call' = [fn |-> "X509ChainToEntry", input |-> chain,
                   status |-> IF ret.ok THEN StatusOK
                              ELSE Status("UNKNOWN", "false"),
                   entry |-> ret.entry, validator |-> {}, result |-> <<>>]
  /\ CallFrame

\* SerializedTbs called on a certificate with an empty result string; it
\* returns a bool, recorded like that of X509ChainToEntry.
CallSerializedTbs ==
  /\ call = NoCall
  /\ \E cert \in Certs :
       LET ret == SerializedTbs(cert)
       IN call' = [fn |-> "SerializedTbs", input |-> <<cert>>,
                   status |-> IF ret.ok THEN StatusOK
                              ELSE Status("UNKNOWN", "false"),
                   entry |-> NoEntry, validator |-> {},
                   result |-> ret.result]
  /\ CallFrame

\* The caller is done with the entry.
CallReturn ==
  /\ call # NoCall
  /\ call' = NoCall
  /\ CallFrame

\* What the signing queue can answer for an entry the submission handler
\* accepted.
QueueStatuses ==
  {StatusOK,
   Status("ALREADY_EXISTS", "entry already logged"),
   Status("RESOURCE_EXHAUSTED", "queue is full")}

\* The front end hands the submission and a fresh LogEntry to the submission
\* handler's entry point for the endpoint.
Submission(fn, sub) ==
  CASE fn = "BlockingAddChain" -> ProcessX509Submission(sub, NoEntry)
    [] fn = "BlockingAddPreChain" -> ProcessPreCertSubmission(sub, NoEntry)
    [] fn = "BlockingAddSignedData" -> ProcessSignedDataSubmission(sub, NoEntry)

\* Frontend::QueueX509Entry, QueuePreCertEntry, QueueSignedDataEntry: the
\* statuses the call can return for a submission.
QueueEntry(fn, sub) ==
  LET s == Submission(fn, sub).status
  IN IF s.code # "OK" THEN {s} ELSE QueueStatuses

AddChainReplyAll400(add_status) ==
  IF add_status.code # "OK" /\ add_status.code # "ALREADY_EXISTS"
  THEN SendError(HTTP_BADREQUEST, add_status.msg)
  ELSE SendJsonReply(HTTP_OK, "sct", <<>>)

AddChainReplyInternal500(add_status) ==
  IF add_status.code # "OK" /\ add_status.code # "ALREADY_EXISTS"
  THEN SendError(CASE add_status.code = "RESOURCE_EXHAUSTED" -> HTTP_SERVUNAVAIL
                   [] add_status.code = "INTERNAL" -> HTTP_INTERNAL
                   [] OTHER -> HTTP_BADREQUEST,
                 add_status.msg)
  ELSE SendJsonReply(HTTP_OK, "sct", <<>>)

AddChainReply(add_status) ==
  IF add_status.code # "OK" /\ add_status.code # "ALREADY_EXISTS"
  THEN SendError(IF add_status.code = "RESOURCE_EXHAUSTED"
                 THEN HTTP_SERVUNAVAIL
                 ELSE HTTP_BADREQUEST,
                 add_status.msg)
  ELSE SendJsonReply(HTTP_OK, "sct", <<>>)

\* The first chain element that stops ExtractChain's loop, 0 when none does.
FirstBadElement(elems) ==
  IF \E i \in 1..Len(elems) : elems[i] \notin Certs
  THEN CHOOSE i \in 1..Len(elems) :
         elems[i] \notin Certs /\ \A j \in 1..(i - 1) : elems[j] \in Certs
  ELSE 0

\* ExtractChain without the checks of its loop over the chain's elements.
ExtractChainNoElementCheck(method, body) ==
  IF method # "POST"
  THEN [ok |-> FALSE, reply |-> SendError(HTTP_BADMETHOD, "Method not allowed.")]
  ELSE IF ~body.json \/ "chain" \notin body.fields
       THEN [ok |-> FALSE,
             reply |-> SendError(HTTP_BADREQUEST,
                                 "Unable to parse provided JSON.")]
       ELSE [ok |-> TRUE, reply |-> NoReply]

\* ExtractChain: [ok, reply]; on success the chain is body.chain.
ExtractChain(method, body) ==
  IF method # "POST"
  THEN [ok |-> FALSE, reply |-> SendError(HTTP_BADMETHOD, "Method not allowed.")]
  ELSE IF ~body.json \/ "chain" \notin body.fields
       THEN [ok |-> FALSE,
             reply |-> SendError(HTTP_BADREQUEST,
                                 "Unable to parse provided JSON.")]
       ELSE LET bad == FirstBadElement(body.chain)
            IN IF bad = 0
               THEN [ok |-> TRUE, reply |-> NoReply]
               ELSE IF body.chain[bad] = "notstring"
                    THEN [ok |-> FALSE,
                          reply |-> SendError(HTTP_BADREQUEST,
                                        "Unable to parse provided JSON.")]
                    ELSE [ok |-> FALSE,
                          reply |-> SendError(HTTP_BADREQUEST,
                                        "Unable to parse provided chain.")]

\* ExtractSignedData: [ok, reply]; on success the data is body.data.
ExtractSignedData(method, body) ==
  IF method # "POST"
  THEN [ok |-> FALSE, reply |-> SendError(HTTP_BADMETHOD, "Method not allowed.")]
  ELSE IF \/ ~body.json
          \/ "keyid" \notin body.fields
          \/ "signature" \notin body.fields
          \/ "data" \notin body.fields
       THEN [ok |-> FALSE,
             reply |-> SendError(HTTP_BADREQUEST,
                                 "Unable to parse provided JSON.")]
       ELSE [ok |-> TRUE, reply |-> NoReply]

Task(fn, r, sub) == [fn |-> fn, req |-> r, sub |-> sub]

\* HttpHandler::AddChain going on to the worker pool after a failed
\* ExtractChain.
AddChainNoReturn(r, method, body) ==
  LET x == ExtractChain(method, body)
  IN Result(x.reply, Task("BlockingAddChain", r, body.chain), {})

\* HttpHandler::AddChain, AddPreChain, AddSignedData for request r.
AddChain(r, method, body) ==
  LET x == ExtractChain(method, body)
  IN IF ~x.ok
     THEN Replied(x.reply, {})
     ELSE Result(NoReply, Task("BlockingAddChain", r, body.chain), {})

AddPreChain(r, method, body) ==
  LET x == ExtractChain(method, body)
  IN IF ~x.ok
     THEN Replied(x.reply, {})
     ELSE Result(NoReply, Task("BlockingAddPreChain", r, body.chain), {})

AddSignedData(r, method, body) ==
  LET x == ExtractSignedData(method, body)
  IN IF ~x.ok
     THEN Replied(x.reply, {})
     ELSE Result(NoReply, Task("BlockingAddSignedData", r, body.data), {})

\* The handler HttpHandler::Add binds to a path.
LocalHandler(r, path, method, input) ==
  CASE path = "get-entries" -> GetEntries(method, input.query, input.db)
    [] path = "get-roots" -> GetRoots(method)
    [] path = "get-proof-by-hash" -> GetProof(method, input.query, input.db)
    [] path = "get-sth" -> GetSTH(method)
    [] path = "get-sth-consistency" -> GetConsistency(method, input.query)
    [] path = "add-chain" -> AddChain(r, method, input.body)
    [] path = "add-pre-chain" -> AddPreChain(r, method, input.body)
    [] path = "add-signed-data" -> AddSignedData(r, method, input.body)


\* ------------------------------------------------------------------ inputs

Query(pairs) == [ok |-> TRUE, pairs |-> pairs]

NoQuery == Query(<<>>)

NoBody == [json |-> FALSE, fields |-> {}, chain |-> <<>>, data |-> <<>>]

ChainBody(chain) ==
  [json |-> TRUE, fields |-> {"chain"}, chain |-> chain, data |-> <<>>]

DataBody(data) ==
  [json |-> TRUE, fields |-> {"keyid", "signature", "data"}, chain |-> <<>>,
   data |-> data]

NoDb == [present |-> {}, corrupt |-> {}]

\* A database holding more consecutive entries than one response may carry.
FullDb ==
  [present |-> 0..(max_leaf_entries_per_response + 1), corrupt |-> {}]

Input(query, body, db) == [query |-> query, body |-> body, db |-> db]

NoInput == Input(NoQuery, NoBody, NoDb)

\* One well-formed request per endpoint.
CoreInputs(path) ==
  CASE path = "get-entries" ->
         {Input(Query(<< <<"start", <<"0">>>>, <<"end", <<"9">>>> >>),
                NoBody, FullDb)}
    [] path = "get-proof-by-hash" ->
         {Input(Query(<< <<"hash", <<"h", "0">>>>, <<"tree_size", <<"1">>>> >>),
                NoBody, FullDb)}
    [] path = "get-sth-consistency" ->
         {Input(Query(<< <<"first", <<"0">>>>, <<"second", <<"1">>>> >>),
                NoBody, FullDb)}
    [] path = "add-chain" -> {Input(NoQuery, ChainBody(<<"leaf", "ca">>), NoDb)}
    [] path = "add-pre-chain" ->
         {Input(NoQuery, ChainBody(<<"pre", "ca">>), NoDb)}
    [] path = "add-signed-data" ->
         {Input(NoQuery, DataBody(<<"key", "d", "goodsig">>), NoDb)}
    [] OTHER -> {NoInput}

\* A database with a gap at sequence number 1, and one whose entry 1 does not
\* serialize.
GapDb ==
  [present |-> (0..(max_leaf_entries_per_response + 1)) \ {1}, corrupt |-> {}]

CorruptDb ==
  [present |-> 0..(max_leaf_entries_per_response + 1), corrupt |-> {1}]

\* Well-formed and malformed requests for each endpoint.
AllInputs(path) ==
  CASE path = "get-entries" ->
         {Input(Query(q), NoBody, d) :
            q \in {<< <<"start", <<"0">>>>, <<"end", <<"9">>>> >>,
                   << <<"start", <<"1">>>>, <<"end", <<"1">>>> >>,
                   << <<"start", <<"1">>>>, <<"end", <<"0">>>> >>,
                   << <<"start", <<"-", "1">>>>, <<"end", <<"0">>>> >>,
                   << <<"start", <<"9">>>>, <<"end", <<"9">>>> >>,
                   << <<"end", <<"1">>>> >>,
                   << <<"start", <<"0">>>> >>},
            d \in {FullDb, GapDb, CorruptDb}}
         \cup
         {Input(Query(q), NoBody, FullDb) :
            q \in {<< <<"start", <<"a">>>>, <<"end", <<"1">>>> >>,
                   << <<"start", <<"0">>>>, <<"end", <<>>>> >>,
                   << <<"start", <<"0">>>>, <<"end", <<"1", "x">>>> >>,
                   << <<"start", <<"0">>>>, <<"end", <<"9", "9", "9">>>> >>,
                   << <<"start", <<"0">>>>,
                      <<"end", <<"9", "9", "9", "9", "9">>>> >>,
                   << <<"start", <<"0">>>>, <<"start", <<"1">>>>,
                      <<"end", <<"1">>>> >>}}
    [] path = "get-proof-by-hash" ->
         {Input(Query(q), NoBody, FullDb) :
            q \in {<< <<"hash", <<"h", "0">>>>, <<"tree_size", <<"1">>>> >>,
                   << <<"hash", <<"h", "9">>>>, <<"tree_size", <<"1">>>> >>,
                   << <<"hash", <<"!">>>>, <<"tree_size", <<"1">>>> >>,
                   << <<"hash", <<"h", "0">>>>, <<"tree_size", <<"9">>>> >>,
                   << <<"hash", <<"h", "0">>>>, <<"hash", <<"h", "1">>>>,
                      <<"tree_size", <<"1">>>> >>,
                   << <<"tree_size", <<"1">>>> >>,
                   << <<"hash", <<"h", "0">>>> >>,
                   << <<"hash", <<"h", "0">>>>, <<"tree_size", <<"-", "1">>>> >>,
                   << <<"hash", <<"h", "3">>>>, <<"tree_size", <<"4">>>> >>}}
    [] path = "get-sth-consistency" ->
         {Input(Query(q), NoBody, FullDb) :
            q \in {<< <<"first", <<"0">>>>, <<"second", <<"1">>>> >>,
                   << <<"first", <<"1">>>>, <<"second", <<"0">>>> >>,
                   << <<"second", <<"1">>>> >>}}
    [] path = "add-chain" ->
         {Input(NoQuery, ChainBody(c), NoDb) :
            c \in {<<"leaf", "ca">>, <<>>, <<"evil">>, <<"noder", "ca">>,
                   <<"leaf", "noder">>, <<"garbage">>, <<"leaf", "notstring">>}}
         \cup {Input(NoQuery, NoBody, NoDb),
               Input(NoQuery, [ChainBody(<<>>) EXCEPT !.fields = {}], NoDb)}
    [] path = "add-pre-chain" ->
         {Input(NoQuery, ChainBody(c), NoDb) :
            c \in {<<"pre", "ca">>, <<"pre">>, <<"leaf", "ca">>, <<>>,
                   <<"pre", "evil">>, <<"garbage">>}}
         \cup {Input(NoQuery, NoBody, NoDb)}
    [] path = "add-signed-data" ->
         {Input(NoQuery, DataBody(d), NoDb) :
            d \in {<<"key", "d", "goodsig">>, <<"key", "d", "badsig">>}}
         \cup {Input(NoQuery, NoBody, NoDb),
               Input(NoQuery,
                     [DataBody(<<"key", "d", "goodsig">>)
                        EXCEPT !.fields = {"keyid", "data"}],
                     NoDb)}
    [] OTHER -> {NoInput}

\* What a peer can answer to a forwarded request.
PeerCodes == {HTTP_OK, HTTP_BADMETHOD}

\* ---------------------------------------------------------------- requests

NoStatus == Status("", "")

\* The submission handler has not been called for the request.
NoSubmission == Returned(NoStatus, NoEntry, {})

NoReq ==
  [pc |-> "none", path |-> "", method |-> "", input |-> NoInput,
   seenStale |-> FALSE, seenVer |-> 0, observed |-> FALSE, routes |-> {},
   scheduled |-> FALSE, backends |-> {}, ran |-> {}, status |-> NoStatus,
   submission |-> NoSubmission, replies |-> 0, reply |-> NoReply]

\* HttpHandler::Add registering every path whatever the configuration.
RegisteredPathsAll(c) == Paths

\* HttpHandler::Add: the paths it registers under a configuration.
RegisteredPaths(c) ==
  {"get-entries", "get-proof-by-hash", "get-sth", "get-sth-consistency"}
  \cup (IF c.cert_checker THEN {"get-roots"} ELSE {})
  \cup (IF c.frontend /\ c.accept_certificates
        THEN {"add-chain", "add-pre-chain"} ELSE {})
  \cup (IF c.frontend /\ c.accept_signed_data
        THEN {"add-signed-data"} ELSE {})

\* HttpHandler::IsNodeStale.
IsNodeStale == node_is_stale

\* HttpHandler::ProxyInterceptor: what it invokes for a request, given the
\* flag it read.
ProxyInterceptorBoth(stale) ==
  IF stale THEN {"proxy", "local"} ELSE {"local"}

\* ProxyInterceptor without its pool_->Add.
ProxyInterceptorNoTask(stale) ==
  IF stale THEN {} ELSE {"local"}

ProxyInterceptor(stale) ==
  IF stale THEN {"proxy"} ELSE {"local"}

\* HttpHandler::AddProxyWrappedHandler: the interceptors around the local
\* handler, outermost first.
AddProxyWrappedHandlerStatsOutside ==
  <<"StatsHandlerInterceptor", "ProxyInterceptor">>

AddProxyWrappedHandler ==
  <<"ProxyInterceptor", "StatsHandlerInterceptor">>

\* A request entering the interceptors in `chain`: whether the latency
\* observer saw it and what was invoked for it.
RECURSIVE Dispatch(_, _, _)
Dispatch(chain, stale, observed) ==
  IF chain = <<>>
  THEN [observed |-> observed, routes |-> {"local"}]
  ELSE IF Head(chain) = "StatsHandlerInterceptor"
       THEN Dispatch(Tail(chain), stale, TRUE)
       ELSE LET routes == ProxyInterceptor(stale)
                inner == Dispatch(Tail(chain), stale, observed)
            IN IF "local" \in routes
               THEN [observed |-> inner.observed,
                     routes |-> (routes \ {"local"}) \cup inner.routes]
               ELSE [observed |-> observed, routes |-> routes]

\* What request handling leaves alone: the flag, the mutex and the monitor's
\* task.
HandlerFrameRefresh ==
  /\ node_is_stale' = ctrl.stale
  /\ flagVer' = ctrl.ver
  /\ UNCHANGED <<call, cfg, registered, ctrl, mutex, taskActive, pending, tick,
                 doneVer, dtor>>

HandlerFrame ==
  UNCHANGED <<call, cfg, registered, ctrl, node_is_stale, flagVer, mutex, taskActive,
              pending, tick, doneVer, dtor>>

\* The I/O thread serves a request to a registered path: the interceptors,
\* then (if they get that far) the local handler's synchronous part. The
\* request takes the lowest free slot.
Serve(r, path, method, input) ==
  /\ reqs[r].pc = "none"
  /\ \A q \in 1..(r - 1) : reqs[q].pc # "none"
  /\ dtor = "none"
  /\ path \in registered
  /\ mutex = "free"
  /\ LET d == Dispatch(AddProxyWrappedHandler, IsNodeStale, FALSE)
         res == IF "local" \in d.routes
                THEN LocalHandler(r, path, method, input)
                ELSE Result(NoReply, NoTask, {})
         tasks == (IF "proxy" \in d.routes
                   THEN {Task("ProxyRequest", r, <<>>)} ELSE {})
                  \cup (IF res.task # NoTask THEN {res.task} ELSE {})
     IN /\ reqs' = [reqs EXCEPT ![r] =
                      [pc |-> IF tasks = {} THEN "replied" ELSE "pooled",
                       path |-> path, method |-> method, input |-> input,
                       seenStale |-> IsNodeStale, seenVer |-> flagVer,
                       observed |-> d.observed, routes |-> d.routes,
                       scheduled |-> tasks # {}, backends |-> res.backends,
                       ran |-> {<<b, "io">> : b \in res.backends},
                       status |-> NoStatus, submission |-> NoSubmission,
                       replies |-> IF res.reply # NoReply THEN 1 ELSE 0,
                       reply |-> res.reply]]
        /\ pool' = pool \cup tasks
  /\ HandlerFrame

Arrive ==
  \E r \in Requests, path \in Paths, method \in Methods :
    \E input \in CoreInputs(path) : Serve(r, path, method, input)

ArriveAny ==
  \E r \in Requests, path \in Paths, method \in Methods :
    \E input \in AllInputs(path) : Serve(r, path, method, input)

\* A worker runs Proxy::ProxyRequest: the client gets the peer's answer.
RunProxyRequest ==
  \E t \in pool, code \in PeerCodes :
    /\ t.fn = "ProxyRequest"
    /\ pool' = pool \ {t}
    /\ reqs' = [reqs EXCEPT ![t.req] =
                  [@ EXCEPT !.pc = IF \E u \in pool \ {t} : u.req = t.req
                                   THEN "pooled" ELSE "replied",
                            !.ran = @ \cup {<<"ProxyRequest", "worker">>},
                            !.replies = @ + 1,
                            !.reply = [code |-> code, kind |-> "peer",
                                       msg |-> "", entries |-> <<>>]]]
    /\ HandlerFrame

\* A worker runs BlockingAddChain, BlockingAddPreChain or
\* BlockingAddSignedData.
RunBlockingAdd ==
  \E t \in pool :
    /\ t.fn \in {"BlockingAddChain", "BlockingAddPreChain",
                 "BlockingAddSignedData"}
    /\ \E add_status \in QueueEntry(t.fn, t.sub) :
         reqs' = [reqs EXCEPT ![t.req] =
                    [@ EXCEPT !.pc = IF \E u \in pool \ {t} : u.req = t.req
                                     THEN "pooled" ELSE "replied",
                              !.backends = @ \cup {"frontend"},
                              !.ran = @ \cup {<<"frontend", "worker">>},
                              !.status = add_status,
                              !.submission = Submission(t.fn, t.sub),
                              !.replies = @ + 1,
                              !.reply = AddChainReply(add_status)]]
    /\ pool' = pool \ {t}
    /\ HandlerFrame

\* The HTTP server is done with an answered request.
Retire ==
  \E r \in Requests :
    /\ reqs[r].pc = "replied"
    /\ reqs' = [reqs EXCEPT ![r] = NoReq]
    /\ pool' = pool
    /\ HandlerFrame

\* HttpHandler::Add(server).
Add ==
  /\ registered = {}
  /\ dtor = "none"
  /\ registered' = RegisteredPaths(cfg)
  /\ UNCHANGED <<call, cfg, ctrl, node_is_stale, flagVer, mutex, taskActive, pending,
                 tick, doneVer, dtor, reqs, pool>>

\* ----------------------------------------------------- staleness monitor

\* The cluster controller changes its answer to NodeIsStale().
ControllerChange ==
  /\ ctrl.ver < MaxCtrlChanges
  /\ ctrl' = [stale |-> ~ctrl.stale, ver |-> ctrl.ver + 1]
  /\ UNCHANGED <<call, cfg, registered, node_is_stale, flagVer, mutex, taskActive,
                 pending, tick, doneVer, dtor, reqs, pool>>

\* libevent::Base::Delay: the delay of a pending child task ends and its
\* callback, UpdateNodeStaleness, starts.
TimerFire ==
  /\ pending > 0
  /\ tick.pc = "idle"
  /\ pending' = pending - 1
  /\ tick' = [tick EXCEPT !.pc = "check"]
  /\ UNCHANGED <<call, cfg, registered, ctrl, node_is_stale, flagVer, mutex,
                 taskActive, doneVer, dtor, reqs, pool>>

\* UpdateNodeStaleness, "if (!task_.task()->IsActive()) return;".
TickCheckNoGuard ==
  /\ tick.pc = "check"
  /\ tick' = [tick EXCEPT !.pc = "query"]
  /\ UNCHANGED <<call, cfg, registered, ctrl, node_is_stale, flagVer, mutex,
                 taskActive, pending, doneVer, dtor, reqs, pool>>

TickCheck ==
  /\ tick.pc = "check"
  /\ tick' = [tick EXCEPT !.pc = IF taskActive THEN "query" ELSE "idle"]
  /\ UNCHANGED <<call, cfg, registered, ctrl, node_is_stale, flagVer, mutex,
                 taskActive, pending, doneVer, dtor, reqs, pool>>

\* UpdateNodeStaleness, "controller_->NodeIsStale()".
TickQuery ==
  /\ tick.pc = "query"
  /\ tick' = [pc |-> "lock", obs |-> ctrl.stale, obsVer |-> ctrl.ver]
  /\ UNCHANGED <<call, cfg, registered, ctrl, node_is_stale, flagVer, mutex,
                 taskActive, pending, doneVer, dtor, reqs, pool>>

\* UpdateNodeStaleness, "lock_guard<mutex> lock(mutex_)".
TickLock ==
  /\ tick.pc = "lock"
  /\ mutex = "free"
  /\ mutex' = "monitor"
  /\ tick' = [tick EXCEPT !.pc = "store"]
  /\ UNCHANGED <<call, cfg, registered, ctrl, node_is_stale, flagVer, taskActive,
                 pending, doneVer, dtor, reqs, pool>>

\* UpdateNodeStaleness, "node_is_stale_ = node_is_stale" and the unlock.
TickStoreSkipped ==
  /\ tick.pc = "store"
  /\ mutex' = "free"
  /\ tick' = [tick EXCEPT !.pc = "sched"]
  /\ UNCHANGED <<call, cfg, registered, ctrl, node_is_stale, flagVer, taskActive,
                 pending, doneVer, dtor, reqs, pool>>

TickStore ==
  /\ tick.pc = "store"
  /\ node_is_stale' = tick.obs
  /\ flagVer' = tick.obsVer
  /\ mutex' = "free"
  /\ tick' = [tick EXCEPT !.pc = "sched"]
  /\ UNCHANGED <<call, cfg, registered, ctrl, taskActive, pending, doneVer, dtor,
                 reqs, pool>>

\* UpdateNodeStaleness, "event_base_->Delay(..., task_.task()->AddChild(...))"
\* and the callback's return.
TickScheduleNone ==
  /\ tick.pc = "sched"
  /\ doneVer' = tick.obsVer
  /\ tick' = [tick EXCEPT !.pc = "idle"]
  /\ UNCHANGED <<call, cfg, registered, ctrl, node_is_stale, flagVer, mutex,
                 taskActive, pending, dtor, reqs, pool>>

TickSchedule ==
  /\ tick.pc = "sched"
  /\ pending' = pending + 1
  /\ doneVer' = tick.obsVer
  /\ tick' = [tick EXCEPT !.pc = "idle"]
  /\ UNCHANGED <<call, cfg, registered, ctrl, node_is_stale, flagVer, mutex,
                 taskActive, dtor, reqs, pool>>

\* ~HttpHandler, "task_.task()->Return()". The server has been stopped: no
\* request is in flight.
DtorReturn ==
  /\ dtor = "none"
  /\ pool = {}
  /\ \A r \in Requests : reqs[r].pc \in {"none", "replied"}
  /\ taskActive' = FALSE
  /\ dtor' = "waiting"
  /\ UNCHANGED <<call, cfg, registered, ctrl, node_is_stale, flagVer, mutex, pending,
                 tick, doneVer, reqs, pool>>

\* ~HttpHandler, "task_.Wait()": returns once every child task is done.
DtorWait ==
  /\ dtor = "waiting"
  /\ pending = 0
  /\ tick.pc = "idle"
  /\ dtor' = "returned"
  /\ UNCHANGED <<call, cfg, registered, ctrl, node_is_stale, flagVer, mutex,
                 taskActive, pending, tick, doneVer, reqs, pool>>

\* ------------------------------------------------------- specifications

Configs ==
  {[cert_checker |-> TRUE, frontend |-> TRUE, accept_certificates |-> TRUE,
    accept_signed_data |-> TRUE],
   [cert_checker |-> TRUE, frontend |-> TRUE, accept_certificates |-> TRUE,
    accept_signed_data |-> FALSE],
   [cert_checker |-> FALSE, frontend |-> FALSE, accept_certificates |-> TRUE,
    accept_signed_data |-> FALSE]}

\* The state after HttpHandler's constructor: the flag holds the controller's
\* answer and the first staleness check waits in the timer.
Constructed(configs) ==
  /\ cfg \in configs
  /\ registered = {}
  /\ ctrl \in {[stale |-> b, ver |-> 0] : b \in BOOLEAN}
  /\ node_is_stale = ctrl.stale
  /\ flagVer = 0
  /\ mutex = "free"
  /\ taskActive = TRUE
  /\ pending = 1
  /\ tick = [pc |-> "idle", obs |-> ctrl.stale, obsVer |-> 0]
  /\ doneVer = 0
  /\ dtor = "none"
  /\ reqs = [r \in Requests |-> NoReq]
  /\ pool = {}
  /\ call = NoCall

Init == Constructed(Configs)

Next ==
  \/ Add
  \/ Arrive
  \/ RunProxyRequest
  \/ RunBlockingAdd
  \/ Retire
  \/ ControllerChange
  \/ TimerFire
  \/ TickCheck
  \/ TickQuery
  \/ TickLock
  \/ TickStore
  \/ TickSchedule
  \/ DtorReturn
  \/ DtorWait

Spec == Init /\ [][Next]_vars

\* The request path alone, over well-formed and malformed requests, while the
\* staleness timer has not fired.
HandlerNext ==
  \/ Add
  \/ ArriveAny
  \/ RunProxyRequest
  \/ RunBlockingAdd
  \/ Retire

HandlerSpec == Init /\ [][HandlerNext]_vars


\* Every combination of a present or null cert checker and frontend with the
\* two accept flags.
AllConfigs ==
  [cert_checker : BOOLEAN, frontend : BOOLEAN, accept_certificates : BOOLEAN,
   accept_signed_data : BOOLEAN]

ConfigInit == Constructed(AllConfigs)

\* Well-formed requests to a handler built under any configuration.
ConfigNext ==
  \/ Add
  \/ Arrive
  \/ RunProxyRequest
  \/ RunBlockingAdd
  \/ Retire

ConfigSpec == ConfigInit /\ [][ConfigNext]_vars

\* The entry points of CertSubmissionHandler, called on chains and signed data
\* of every shape.
SubmissionNext ==
  \/ CallProcessX509Submission
  \/ CallProcessPreCertSubmission
  \/ CallProcessSignedDataSubmission
  \/ CallX509ChainToEntry
  \/ CallSerializedTbs
  \/ CallReturn

SubmissionSpec == Init /\ [][SubmissionNext]_vars

\* ---------------------------------------------------- logged certificate

\* A LoggedCertificate: its SCT and its LogEntry. Clear() leaves a fresh one.
NoSct == [version |-> "", timestamp |-> 0, extensions |-> ""]

Clear == [sct |-> NoSct, entry |-> NoEntry]

\* The logged certificates CopyFromClientLogEntry is called on: a fresh one
\* and one that holds an earlier X509 entry.
LoggedCertificates ==
  {Clear,
   [sct |-> [version |-> "V1", timestamp |-> 9, extensions |-> "old"],
    entry |-> set_type(SetValue(NoEntry, "x509_entry.leaf_certificate",
                                "earlier x509"),
                       "X509_ENTRY")]}

\* The entry types a leaf can carry; the last stands for a value outside the
\* three the log knows.
LeafEntryTypes ==
  {"X509_ENTRY", "PRECERT_ENTRY", "SIGNED_DATA_ENTRY", "UNKNOWN_ENTRY_TYPE"}

\* The signed_entry of a leaf of a type: the fields of that type are filled,
\* the others have the default value.
SignedEntry(type) ==
  [x509 |-> IF type = "X509_ENTRY" THEN "leaf x509" ELSE "",
   issuer_key_hash |-> IF type = "PRECERT_ENTRY" THEN "leaf key hash" ELSE "",
   tbs_certificate |-> IF type = "PRECERT_ENTRY" THEN "leaf tbs" ELSE "",
   keyid |-> IF type = "SIGNED_DATA_ENTRY" THEN "leaf keyid" ELSE "",
   data |-> IF type = "SIGNED_DATA_ENTRY" THEN "leaf data" ELSE ""]

\* entry.leaf.timestamped_entry() of a client entry.
Leaves ==
  {[entry_type |-> type, timestamp |-> ts, extensions |-> ext,
    signed_entry |-> SignedEntry(type)] :
     type \in LeafEntryTypes, ts \in {1, 2}, ext \in {"", "ext"}}

\* entry.entry of a client entry: the incomplete LogEntry made from the
\* extra data, empty, with a chain, or with fields the leaf also gives.
ExtraEntries ==
  {NoEntry,
   set_type(SetValue(NoEntry, "x509_entry.certificate_chain", "extra chain"),
            "X509_ENTRY"),
   set_type(SetValue(SetValue(NoEntry, "precert_entry.pre_certificate",
                              "extra precert"),
                     "precert_entry.precertificate_chain", "extra chain"),
            "PRECERT_ENTRY"),
   set_type(SetValue(NoEntry, "x509_entry.leaf_certificate", "extra x509"),
            "X509_ENTRY")}

\* AsyncLogClient::Entry.
ClientEntries == [leaf : Leaves, entry : ExtraEntries]

\* CopyFromClientLogEntry with Clear() ahead of the test of the entry type.
CopyFromClientLogEntryClearFirst(entry, logged) ==
  LET type == entry.leaf.entry_type
      signed == entry.leaf.signed_entry
      typed == set_type(entry.entry, type)
  IN IF type \notin {"X509_ENTRY", "PRECERT_ENTRY", "SIGNED_DATA_ENTRY"}
     THEN [ok |-> FALSE, logged |-> Clear]
     ELSE [ok |-> TRUE,
           logged |->
             [sct |-> [version |-> "V1",
                       timestamp |-> entry.leaf.timestamp,
                       extensions |-> entry.leaf.extensions],
              entry |->
                CASE type = "X509_ENTRY" ->
                       SetValue(typed, "x509_entry.leaf_certificate",
                                signed.x509)
                  [] type = "PRECERT_ENTRY" ->
                       SetValue(
                         SetValue(typed,
                                  "precert_entry.pre_cert.issuer_key_hash",
                                  signed.issuer_key_hash),
                         "precert_entry.pre_cert.tbs_certificate",
                         signed.tbs_certificate)
                  [] type = "SIGNED_DATA_ENTRY" ->
                       SetValue(
                         SetValue(typed, "signed_data_entry.keyid",
                                  signed.keyid),
                         "signed_data_entry.data", signed.data)]]

\* LoggedCertificate::CopyFromClientLogEntry: [ok, logged], logged being the
\* object after the call.
CopyFromClientLogEntry(entry, logged) ==
  LET type == entry.leaf.entry_type
      signed == entry.leaf.signed_entry
      typed == set_type(entry.entry, type)
  IN IF type \notin {"X509_ENTRY", "PRECERT_ENTRY", "SIGNED_DATA_ENTRY"}
     THEN [ok |-> FALSE, logged |-> logged]
     ELSE [ok |-> TRUE,
           logged |->
             [sct |-> [version |-> "V1",
                       timestamp |-> entry.leaf.timestamp,
                       extensions |-> entry.leaf.extensions],
              entry |->
                CASE type = "X509_ENTRY" ->
                       SetValue(typed, "x509_entry.leaf_certificate",
                                signed.x509)
                  [] type = "PRECERT_ENTRY" ->
                       SetValue(
                         SetValue(typed,
                                  "precert_entry.pre_cert.issuer_key_hash",
                                  signed.issuer_key_hash),
                         "precert_entry.pre_cert.tbs_certificate",
                         signed.tbs_certificate)
                  [] type = "SIGNED_DATA_ENTRY" ->
                       SetValue(
                         SetValue(typed, "signed_data_entry.keyid",
                                  signed.keyid),
                         "signed_data_entry.data", signed.data)]]

\* CopyFromClientLogEntry called on a logged certificate; the result is the
\* logged certificate after the call.
CallCopyFromClientLogEntry ==
  /\ call = NoCall
  /\ \E entry \in ClientEntries, logged \in LoggedCertificates :
       LET ret == CopyFromClientLogEntry(entry, logged)
       IN call' = [fn |-> "CopyFromClientLogEntry",
                   input |-> <<entry, logged>>,
                   status |-> IF ret.ok THEN StatusOK
                              ELSE Status("UNKNOWN", "false"),
                   entry |-> NoEntry, validator |-> {},
                   result |-> <<ret.logged>>]
  /\ CallFrame

\* ------------------------------------------------------- parameter calls

\* The query strings handed to the parameter helpers: up to MaxQueryPairs
\* key=value pairs, or a query string that does not parse.
QueryParams == {"include_scts", "hash"}

QueryValues ==
  {<<"t", "r", "u", "e">>, <<"T", "r", "u", "e">>, <<"f", "a", "l", "s", "e">>,
   <<"1">>, <<>>}

Queries ==
  {Query(pairs) :
     pairs \in UNION {[1..n -> QueryParams \X QueryValues] :
                        n \in 0..MaxQueryPairs}}
  \cup {[ok |-> FALSE, pairs |-> <<>>]}

\* GetParam called with a string the caller already holds; the bool it returns
\* is recorded as status OK or UNKNOWN, the caller's string as the result.
CallGetParam ==
  /\ call = NoCall
  /\ \E raw \in Queries, param \in QueryParams,
        value \in {<<>>, <<"o", "l", "d">>} :
       LET ret == GetParam(ParseQuery(raw), param, value)
       IN call' = [fn |-> "GetParam", input |-> <<raw, param, value>>,
                   status |-> IF ret.found THEN StatusOK
                              ELSE Status("UNKNOWN", "false"),
                   entry |-> NoEntry, validator |-> {},
                   result |-> ret.value]
  /\ CallFrame

\* GetBoolParam called; the result is the bool it returns.
CallGetBoolParam ==
  /\ call = NoCall
  /\ \E raw \in Queries, param \in QueryParams :
       call' = [fn |-> "GetBoolParam", input |-> <<raw, param>>,
                status |-> StatusOK, entry |-> NoEntry, validator |-> {},
                result |-> <<GetBoolParam(ParseQuery(raw), param)>>]
  /\ CallFrame

\* The query parameter helpers, called on query strings of every shape.
QueryNext ==
  \/ CallGetParam
  \/ CallGetBoolParam
  \/ CallReturn

QuerySpec == Init /\ [][QueryNext]_vars

\* LoggedCertificate::CopyFromClientLogEntry, called with client entries of
\* every entry type on fresh and on used logged certificates.
CopyNext ==
  \/ CallCopyFromClientLogEntry
  \/ CallReturn

CopySpec == Init /\ [][CopyNext]_vars

\* The request path with a worker pool that runs every task it is given.
FairHandlerSpec ==
  /\ HandlerSpec
  /\ WF_vars(RunBlockingAdd)
  /\ WF_vars(RunProxyRequest)

\* The staleness monitor and the destructor are scheduled fairly: the timer
\* fires, a started callback runs to its end, a satisfied Wait returns.
FairSpec ==
  /\ Spec
  /\ WF_vars(TimerFire)
  /\ WF_vars(TickCheck)
  /\ WF_vars(TickQuery)
  /\ WF_vars(TickLock)
  /\ WF_vars(TickStore)
  /\ WF_vars(TickSchedule)
  /\ WF_vars(DtorWait)

\* ------------------------------------------------------------- properties

Arrived(r) == reqs[r].pc # "none"

Answered(r) == reqs[r].pc = "replied"

WrongMethod(r) ==
  \/ reqs[r].path \in WritePaths /\ reqs[r].method # "POST"
  \/ reqs[r].path \in ReadPaths /\ reqs[r].method # "GET"

MethodNotAllowed == SendError(HTTP_BADMETHOD, "Method not allowed.")

\* The controller's answer when it was at version v.
StaleAt(v) == IF (ctrl.ver - v) % 2 = 0 THEN ctrl.stale ELSE ~ctrl.stale

\* Child tasks of task_ that are not done: waiting in the timer or running.
Outstanding == pending + (IF tick.pc = "idle" THEN 0 ELSE 1)

\* C1: a 200 reply of get-entries carries at most
\* max_leaf_entries_per_response entry records.
C1_ResponseCap ==
  \A r \in Requests :
    (reqs[r].path = "get-entries" /\ reqs[r].reply.code = HTTP_OK
       /\ reqs[r].reply.kind = "entries")
    => Len(reqs[r].reply.entries) <= max_leaf_entries_per_response

\* C2 as stated: every request with the wrong method for its endpoint is
\* answered 405, schedules no worker task and consults no backend.
C2_MethodGuardAlways ==
  \A r \in Requests :
    (Arrived(r) /\ WrongMethod(r))
    => /\ reqs[r].reply = MethodNotAllowed
       /\ ~reqs[r].scheduled
       /\ reqs[r].backends = {}

\* C2 as amended: a request with the wrong method that the proxy interceptor
\* hands to the local handler (the flag read fresh) is answered 405 at once,
\* schedules no worker task and consults no backend; when the flag is read
\* stale the request is forwarded by a worker task whatever its method.
C2_MethodGuardLocal ==
  \A r \in Requests :
    (Arrived(r) /\ WrongMethod(r))
    => /\ ~reqs[r].seenStale
          => /\ Answered(r)
             /\ reqs[r].reply = MethodNotAllowed
             /\ ~reqs[r].scheduled
             /\ reqs[r].backends = {}
       /\ reqs[r].seenStale
          => /\ reqs[r].scheduled
             /\ reqs[r].backends = {}
             /\ reqs[r].reply.kind \in {"none", "peer"}

C2_Witness ==
  \E r \in Requests :
    /\ Answered(r) /\ WrongMethod(r) /\ reqs[r].path \in WritePaths
    /\ ~reqs[r].seenStale
    /\ reqs[r].reply = MethodNotAllowed

\* The reply AddChainReply's table gives for a queue status.
TableReply(status) ==
  CASE status.code \in {"OK", "ALREADY_EXISTS"} ->
         SendJsonReply(HTTP_OK, "sct", <<>>)
    [] status.code = "RESOURCE_EXHAUSTED" ->
         SendError(HTTP_SERVUNAVAIL, status.msg)
    [] OTHER -> SendError(HTTP_BADREQUEST, status.msg)

\* C3: the reply to an add-chain, add-pre-chain or add-signed-data request is
\* decided by the queue status alone: OK and ALREADY_EXISTS give 200 with the
\* SCT, RESOURCE_EXHAUSTED gives 503 and any other status 400, both with the
\* status's message.
C3_ReplyByQueueStatus ==
  \A r \in Requests :
    reqs[r].status # NoStatus
    => /\ reqs[r].path \in WritePaths
       /\ reqs[r].reply = TableReply(reqs[r].status)

C3_Witness ==
  \E r \in Requests :
    /\ Answered(r)
    /\ reqs[r].status.code = "ALREADY_EXISTS"
    /\ reqs[r].reply.code = HTTP_OK
    /\ reqs[r].reply.kind = "sct"

\* C4 as stated: a submission that fails with status internal (DER encoding
\* failed after validation) is answered with HTTP 500.
C4_InternalGives500 ==
  \A r \in Requests :
    reqs[r].status.code = "INTERNAL" => reqs[r].reply.code = HTTP_INTERNAL

\* C4 as amended: such a submission is answered with HTTP 400 and the
\* status's message.
C4_InternalGives400 ==
  \A r \in Requests :
    reqs[r].status.code = "INTERNAL"
    => reqs[r].reply =
         SendError(HTTP_BADREQUEST, "could not DER-encode the chain")

C4_Witness ==
  \E r \in Requests :
    /\ Answered(r)
    /\ reqs[r].path = "add-chain"
    /\ reqs[r].input.body.chain = <<"noder", "ca">>
    /\ reqs[r].status.code = "INTERNAL"

\* C5: the proxy interceptor does exactly one thing for a request, decided by
\* the flag it read: stale, the request is forwarded and the local handler
\* never runs for it; fresh, the local handler runs and the request is never
\* forwarded; whatever the endpoint and whatever the flag becomes later.
C5_OneRoute ==
  \A r \in Requests :
    Arrived(r)
    => /\ reqs[r].routes = (IF reqs[r].seenStale THEN {"proxy"} ELSE {"local"})
       /\ reqs[r].seenStale
          => /\ reqs[r].reply.kind \in {"none", "peer"}
             /\ reqs[r].backends = {}
             /\ reqs[r].status = NoStatus
             /\ \A t \in pool : t.req = r => t.fn = "ProxyRequest"
       /\ ~reqs[r].seenStale
          => /\ reqs[r].reply.kind # "peer"
             /\ \A t \in pool : t.req = r => t.fn # "ProxyRequest"

C5_Witness ==
  \E r \in Requests :
    /\ Answered(r)
    /\ reqs[r].seenStale
    /\ reqs[r].reply.kind = "peer"
    /\ ~node_is_stale

\* C6: the value a request reads from the flag is the controller's answer at
\* a version no older than the one the most recently completed tick observed.
C6_ReadsNotOlder ==
  [][\A r \in Requests :
       (reqs[r].pc = "none" /\ reqs'[r].pc # "none")
       => /\ reqs'[r].seenVer >= doneVer
          /\ reqs'[r].seenStale = StaleAt(reqs'[r].seenVer)]_vars

C6_Witness ==
  \E r \in Requests :
    /\ Arrived(r)
    /\ reqs[r].seenVer >= 1
    /\ doneVer >= 1
    /\ tick.pc = "idle"

\* C7: once the destructor has returned no tick is pending or running, so
\* none queries the controller, writes the flag or schedules a further tick;
\* and a destructor that has signalled shutdown does return.
C7_ShutdownNoRace ==
  /\ [](dtor = "returned" => (pending = 0 /\ tick.pc = "idle"))
  /\ (dtor = "waiting") ~> (dtor = "returned")

\* Shutdown is signalled while a tick that passed its IsActive check is about
\* to schedule a further tick.
C7_Witness ==
  /\ dtor = "waiting"
  /\ ~taskActive
  /\ tick.pc = "sched"

\* C8: until shutdown is signalled exactly one tick is pending or running,
\* never more than one is outstanding, and every change of the controller's
\* answer is eventually in the flag.
C8_MonitorRuns ==
  /\ [](Outstanding <= 1)
  /\ [](taskActive => Outstanding = 1)
  /\ [](tick.pc = "idle" => node_is_stale = StaleAt(flagVer))
  /\ \A v \in 0..MaxCtrlChanges :
       (ctrl.ver = v) ~> (flagVer >= v \/ ~taskActive)

C8_Witness ==
  /\ taskActive
  /\ ctrl.ver >= 1
  /\ flagVer = ctrl.ver
  /\ pending = 1

\* C9: the flag is the controller's answer at construction and changes only
\* in a tick's store; serving a request, running a worker task or retiring a
\* request changes neither the flag nor the mutex nor the monitor's task.
C9_OnlyMonitorWrites ==
  [][/\ (node_is_stale' # node_is_stale \/ flagVer' # flagVer)
        => (tick.pc = "store" /\ tick'.pc = "sched" /\ reqs' = reqs
            /\ pool' = pool)
     /\ (reqs' # reqs \/ pool' # pool)
        => UNCHANGED <<cfg, registered, node_is_stale, flagVer, mutex,
                       taskActive, pending, tick, dtor>>]_vars

\* A request has been answered locally while the controller's answer differs
\* from the flag, and the flag is still what the request read.
C9_Witness ==
  \E r \in Requests :
    /\ Answered(r)
    /\ "local" \in reqs[r].routes
    /\ reqs[r].seenVer = flagVer
    /\ ctrl.ver > flagVer

\* C10 as stated: every request to a registered path passes through the
\* latency observer, forwarded or not.
C10_LatencyOutermost ==
  \A r \in Requests : Arrived(r) => reqs[r].observed

\* C10 as amended: the proxy interceptor is the outermost interceptor and the
\* latency observer is inside it, so a request passes through the latency
\* observer exactly when the proxy interceptor hands it to the local handler;
\* a forwarded request never reaches the latency observer.
C10_LatencyInsideProxy ==
  \A r \in Requests :
    Arrived(r)
    => /\ reqs[r].observed <=> ("local" \in reqs[r].routes)
       /\ reqs[r].seenStale => ~reqs[r].observed

C10_Witness ==
  \E r \in Requests :
    /\ Answered(r)
    /\ reqs[r].seenStale
    /\ reqs[r].reply.kind = "peer"
    /\ ~reqs[r].observed

\* C11 as stated: the I/O thread never scans the entry database and never
\* calls the signing queue; both run in tasks on the worker pool.
C11_ScanOffIoThread ==
  \A r \in Requests :
    Arrived(r)
    => /\ <<"db", "io">> \notin reqs[r].ran
       /\ <<"frontend", "io">> \notin reqs[r].ran

\* C12: a request the proxy interceptor forwards is forwarded by a task on the
\* worker pool: when the I/O thread is done with it the ProxyRequest task sits
\* in the pool and nothing has been sent, and the peer's answer is sent only
\* by a worker that ran the task; the I/O thread never forwards.
C12_ForwardOnWorker ==
  \A r \in Requests :
    (Arrived(r) /\ reqs[r].seenStale)
    => /\ reqs[r].scheduled
       /\ <<"ProxyRequest", "io">> \notin reqs[r].ran
       /\ reqs[r].pc = "pooled"
          => /\ Task("ProxyRequest", r, <<>>) \in pool
             /\ reqs[r].reply = NoReply
             /\ reqs[r].ran = {}
       /\ reqs[r].pc = "replied"
          => /\ reqs[r].reply.kind = "peer"
             /\ reqs[r].ran = {<<"ProxyRequest", "worker">>}

C12_Witness ==
  \E r \in Requests :
    /\ reqs[r].seenStale
    /\ reqs[r].pc = "replied"
    /\ reqs[r].path = "get-entries"
    /\ <<"ProxyRequest", "worker">> \in reqs[r].ran

\* A write request that does not decode: wrong method, a body that is not a
\* JSON object, a missing or mistyped field, a chain element that is not a
\* string or does not load as a certificate.
DecodeFails(r) ==
  \/ reqs[r].method # "POST"
  \/ ~reqs[r].input.body.json
  \/ /\ reqs[r].path \in {"add-chain", "add-pre-chain"}
     /\ \/ "chain" \notin reqs[r].input.body.fields
        \/ \E i \in 1..Len(reqs[r].input.body.chain) :
             reqs[r].input.body.chain[i] \notin Certs
  \/ /\ reqs[r].path = "add-signed-data"
     /\ {"keyid", "signature", "data"} \ reqs[r].input.body.fields # {}

\* C13: when add-chain, add-pre-chain or add-signed-data fails to decode its
\* request, the request is answered at once with one 400 or 405 error, no
\* worker task is scheduled and the signing frontend is never called for it;
\* a Blocking* task exists only for a request that decoded.
C13_DecodeErrorsShortCircuit ==
  \A r \in Requests :
    (Arrived(r) /\ reqs[r].path \in WritePaths /\ "local" \in reqs[r].routes)
    => /\ DecodeFails(r)
          => /\ Answered(r)
             /\ reqs[r].reply.kind = "error"
             /\ reqs[r].reply.code =
                  (IF reqs[r].method # "POST" THEN HTTP_BADMETHOD
                   ELSE HTTP_BADREQUEST)
             /\ ~reqs[r].scheduled
             /\ \A t \in pool : t.req # r
             /\ reqs[r].ran = {}
             /\ reqs[r].status = NoStatus
       /\ ~DecodeFails(r)
          => /\ reqs[r].scheduled
             /\ reqs[r].pc = "pooled" => reqs[r].reply = NoReply

C13_Witness ==
  \E r \in Requests :
    /\ Answered(r)
    /\ reqs[r].path = "add-chain"
    /\ reqs[r].method = "POST"
    /\ reqs[r].input.body.chain = <<"leaf", "notstring">>
    /\ "local" \in reqs[r].routes
    /\ reqs[r].reply.code = HTTP_BADREQUEST

\* C14: the registered paths are decided by the configuration: add-chain and
\* add-pre-chain need a frontend and accept_certificates, add-signed-data a
\* frontend and accept_signed_data, get-roots a cert checker; the other four
\* read paths are always registered. Only registered paths are served, so
\* with a null frontend no add-* request is served and the frontend is never
\* called.
C14_RegisteredByConfig ==
  /\ registered # {}
     => \A p \in Paths :
          p \in registered <=>
            \/ p \in {"get-entries", "get-proof-by-hash", "get-sth",
                      "get-sth-consistency"}
            \/ p = "get-roots" /\ cfg.cert_checker
            \/ p \in {"add-chain", "add-pre-chain"}
                 /\ cfg.frontend /\ cfg.accept_certificates
            \/ p = "add-signed-data"
                 /\ cfg.frontend /\ cfg.accept_signed_data
  /\ \A r \in Requests :
       Arrived(r)
       => /\ reqs[r].path \in registered
          /\ ~cfg.frontend
             => /\ reqs[r].path \notin WritePaths
                /\ "frontend" \notin reqs[r].backends

\* A handler with a frontend that accepts signed data but not certificates
\* has served add-signed-data.
C14_Witness ==
  /\ cfg.frontend /\ ~cfg.accept_certificates /\ cfg.accept_signed_data
  /\ ~cfg.cert_checker
  /\ "add-chain" \notin registered /\ "get-roots" \notin registered
  /\ \E r \in Requests :
       /\ Answered(r)
       /\ reqs[r].path = "add-signed-data"
       /\ reqs[r].status.code = "OK"

\* The texts a request's query gives for a parameter.
ParamTexts(r, param) ==
  LET ps == SelectSeq(reqs[r].input.query.pairs, LAMBDA p : p[1] = param)
  IN [i \in 1..Len(ps) |-> ps[i][2]]

\* A decimal integer: an optional sign and then digits only, at least one.
WellFormedInt(text) ==
  LET ds == IF text # <<>> /\ Head(text) \in {"-", "+"}
            THEN Tail(text) ELSE text
  IN ds # <<>> /\ \A i \in 1..Len(ds) : ds[i] \in Digits

\* The parameter is given once, as a decimal integer in the range of int.
ValidIntParam(r, param) ==
  LET ts == ParamTexts(r, param)
  IN /\ Len(ts) = 1
     /\ WellFormedInt(ts[1])
     /\ StrToL(ts[1]).errno = "0"
     /\ StrToL(ts[1]).num \in (-IntMax - 1)..IntMax

IntParamValue(r, param) == StrToL(ParamTexts(r, param)[1]).num

\* 0 <= start <= end, both given as valid integers.
ValidRange(r) ==
  /\ ValidIntParam(r, "start")
  /\ ValidIntParam(r, "end")
  /\ 0 <= IntParamValue(r, "start")
  /\ IntParamValue(r, "start") <= IntParamValue(r, "end")

\* C15 as stated: get-entries answers 400 and scans nothing whenever start is
\* missing, invalid or negative or end is missing, invalid or smaller than
\* start; the database is scanned only when 0 <= start <= end.
C15_BadRangeRejected ==
  \A r \in Requests :
    (Arrived(r) /\ reqs[r].path = "get-entries" /\ reqs[r].method = "GET"
       /\ "local" \in reqs[r].routes /\ ~ValidRange(r))
    => /\ reqs[r].reply.kind = "error"
       /\ reqs[r].reply.code = HTTP_BADREQUEST
       /\ "db" \notin reqs[r].backends

\* The value GetIntParam is to return for a parameter of a request: the
\* integer when the parameter is given once as a decimal integer in the range
\* of int, and -1 when it is absent, duplicated, not a decimal integer or out
\* of range.
ExpectedIntParam(r, param) ==
  IF ValidIntParam(r, param) THEN IntParamValue(r, param) ELSE -1

\* C17 as stated: GetIntParam returns -1 for a parameter that is absent,
\* duplicated, not parseable as a decimal integer (non-numeric text, an empty
\* value) or out of range, and the parsed value only for a single well-formed
\* in-range integer.
C17_IntParamMinusOneOnError ==
  \A r \in Requests :
    (Arrived(r) /\ reqs[r].path = "get-entries")
    => \A param \in {"start", "end"} :
         GetIntParam(ParseQuery(reqs[r].input.query), param)
           = ExpectedIntParam(r, param)

\* The longest run start, start+1, ... of sequence numbers the database holds,
\* none beyond last.
RECURSIVE RunFrom(_, _, _)
RunFrom(db, i, last) ==
  IF i > last \/ i \notin db.present
  THEN <<>>
  ELSE <<i>> \o RunFrom(db, i + 1, last)

\* The run a get-entries request with a valid range is to return: from start,
\* within the range capped at start + max_leaf_entries_per_response.
ExpectedEntries(r) ==
  RunFrom(reqs[r].input.db, IntParamValue(r, "start"),
          Min(IntParamValue(r, "end"),
              IntParamValue(r, "start") + max_leaf_entries_per_response))

\* C16: the records get-entries returns are exactly the longest run of entries
\* with consecutive sequence numbers from start within the capped range: the
\* scan stops at the first missing or out-of-sequence entry and returns
\* nothing after it; an empty run is answered 400 "Entry not found.", never
\* 200 with an empty list.
C16_LongestConsecutiveRun ==
  \A r \in Requests :
    (Arrived(r) /\ reqs[r].path = "get-entries" /\ reqs[r].method = "GET"
       /\ "local" \in reqs[r].routes /\ ValidRange(r))
    => LET run == ExpectedEntries(r)
       IN /\ reqs[r].reply.kind = "entries"
             => /\ reqs[r].reply.code = HTTP_OK
                /\ reqs[r].reply.entries = run
                /\ run # <<>>
          /\ run = <<>>
             => reqs[r].reply = SendError(HTTP_BADREQUEST, "Entry not found.")
          /\ (run # <<>> /\ \A i \in 1..Len(run) :
                               run[i] \notin reqs[r].input.db.corrupt)
             => reqs[r].reply = SendJsonReply(HTTP_OK, "entries", run)

\* A scan from 0 over a database that lacks entry 1 but holds later entries
\* returned entry 0 alone.
C16_Witness ==
  \E r \in Requests :
    /\ Answered(r)
    /\ reqs[r].path = "get-entries"
    /\ reqs[r].input.db = GapDb
    /\ 2 \in reqs[r].input.db.present
    /\ reqs[r].reply.code = HTTP_OK
    /\ reqs[r].reply.entries = <<0>>

\* The hash of a get-proof-by-hash request is given once and decodes to a
\* non-empty string.
GoodHash(r) ==
  /\ Len(ParamTexts(r, "hash")) = 1
  /\ FromBase64(ParamTexts(r, "hash")[1]) # <<>>

\* tree_size is missing, negative or larger than the STH's tree size.
BadTreeSize(r) ==
  \/ ParamTexts(r, "tree_size") = <<>>
  \/ /\ ValidIntParam(r, "tree_size")
     /\ \/ IntParamValue(r, "tree_size") < 0
        \/ IntParamValue(r, "tree_size") > SthTreeSize(reqs[r].input.db)

GoodTreeSize(r) ==
  /\ ValidIntParam(r, "tree_size")
  /\ IntParamValue(r, "tree_size") \in 0..SthTreeSize(reqs[r].input.db)

\* C18: get-proof-by-hash answers 400 without computing a proof when hash is
\* missing, duplicated or decodes to empty, or tree_size is missing, negative
\* or larger than the STH's tree size; with valid inputs it answers 400
\* "Couldn't find hash." when the lookup misses and 200 with the proof only
\* when the lookup succeeds.
C18_ProofInputsChecked ==
  \A r \in Requests :
    (Arrived(r) /\ reqs[r].path = "get-proof-by-hash" /\ reqs[r].method = "GET"
       /\ "local" \in reqs[r].routes)
    => /\ (~GoodHash(r) \/ BadTreeSize(r))
          => /\ reqs[r].reply.kind = "error"
             /\ reqs[r].reply.code = HTTP_BADREQUEST
             /\ reqs[r].reply.msg # "Couldn't find hash."
             /\ "audit_proof" \notin reqs[r].backends
       /\ (GoodHash(r) /\ GoodTreeSize(r))
          => /\ "audit_proof" \in reqs[r].backends
             /\ reqs[r].reply =
                  (IF AuditProofFound(FromBase64(ParamTexts(r, "hash")[1]),
                                      IntParamValue(r, "tree_size"))
                   THEN SendJsonReply(HTTP_OK, "proof", <<>>)
                   ELSE SendError(HTTP_BADREQUEST, "Couldn't find hash."))
       /\ reqs[r].reply.code = HTTP_OK
          => /\ GoodHash(r)
             /\ GoodTreeSize(r)
             /\ AuditProofFound(FromBase64(ParamTexts(r, "hash")[1]),
                                IntParamValue(r, "tree_size"))

\* A lookup succeeded with tree_size equal to the STH's tree size.
C18_Witness ==
  \E r \in Requests :
    /\ Answered(r)
    /\ reqs[r].path = "get-proof-by-hash"
    /\ reqs[r].reply = SendJsonReply(HTTP_OK, "proof", <<>>)
    /\ reqs[r].backends = {"log_lookup", "audit_proof"}
    /\ IntParamValue(r, "tree_size") = SthTreeSize(reqs[r].input.db)

\* The payload fields of each variant of LogEntry.
VariantFields(type) ==
  CASE type = "X509_ENTRY" ->
         {"x509_entry.leaf_certificate", "x509_entry.certificate_chain"}
    [] type = "PRECERT_ENTRY" ->
         {"precert_entry.pre_cert.issuer_key_hash",
          "precert_entry.pre_cert.tbs_certificate",
          "precert_entry.pre_certificate",
          "precert_entry.precertificate_chain"}
    [] type = "SIGNED_DATA_ENTRY" ->
         {"signed_data_entry.keyid", "signed_data_entry.data",
          "signed_data_entry.signature"}
    [] OTHER -> {}

\* The fields an entry point is to have populated when it reports success
\* with the given tag for the given submission.
PayloadOf(fn, type, input) ==
  CASE fn = "ProcessSignedDataSubmission" -> VariantFields("SIGNED_DATA_ENTRY")
    [] fn = "ProcessX509Submission" ->
         {"x509_entry.leaf_certificate"}
         \cup (IF Len(ValidatedChain(input)) > 1
               THEN {"x509_entry.certificate_chain"} ELSE {})
    [] fn = "ProcessPreCertSubmission" ->
         {"precert_entry.pre_cert.issuer_key_hash",
          "precert_entry.pre_cert.tbs_certificate",
          "precert_entry.pre_certificate"}
         \cup (IF Len(ValidatedChain(input)) > 1
               THEN {"precert_entry.precertificate_chain"} ELSE {})
    [] fn = "X509ChainToEntry" /\ type = "PRECERT_ENTRY" ->
         {"precert_entry.pre_cert.issuer_key_hash",
          "precert_entry.pre_cert.tbs_certificate"}
    [] fn = "X509ChainToEntry" /\ type = "X509_ENTRY" ->
         {"x509_entry.leaf_certificate"}
    [] OTHER -> {}

\* The tag an entry point is to give for a submission it accepts.
TagOf(fn, input) ==
  CASE fn = "ProcessSignedDataSubmission" -> "SIGNED_DATA_ENTRY"
    [] fn = "ProcessX509Submission" -> "X509_ENTRY"
    [] fn = "ProcessPreCertSubmission" -> "PRECERT_ENTRY"
    [] fn = "X509ChainToEntry" ->
         IF HasExtension(input[1]) = "TRUE" THEN "PRECERT_ENTRY"
         ELSE "X509_ENTRY"

\* C19: a LogEntry for which an entry point reports success carries the tag
\* of the variant the entry point builds, every payload field of that variant
\* the entry point writes, and no field of another variant.
C19_TagMatchesPayload ==
  (/\ call.fn \in {"ProcessSignedDataSubmission", "ProcessX509Submission",
                   "ProcessPreCertSubmission", "X509ChainToEntry"}
   /\ call.status.code = "OK")
  => /\ call.entry.type = TagOf(call.fn, call.input)
     /\ call.entry.set = PayloadOf(call.fn, call.entry.type, call.input)
     /\ call.entry.set # {}
     /\ call.entry.set \subseteq VariantFields(call.entry.type)

\* X509ChainToEntry built a precertificate entry from a leaf with the embedded
\* SCT list and its issuer.
C19_Witness ==
  /\ call.fn = "X509ChainToEntry"
  /\ call.status.code = "OK"
  /\ call.input = <<"embedded", "ca">>
  /\ call.entry.type = "PRECERT_ENTRY"

\* C20 as stated: when X509ChainToEntry returns false the entry is left
\* cleared, with no type tag and no payload field.
C20_FailureLeavesEntryCleared ==
  (call.fn = "X509ChainToEntry" /\ call.status.code # "OK")
  => call.entry = NoEntry

\* The values written to a field of an entry, none when it was never written.
ValueOf(entry, field) ==
  IF field \in DOMAIN entry.val THEN entry.val[field] ELSE <<>>

\* X509ChainToEntry was called on a loaded chain whose leaf gives a definite
\* answer for the extension.
DefiniteCall ==
  /\ call.fn = "X509ChainToEntry"
  /\ call.input # <<>>
  /\ HasExtension(call.input[1]) \in {"TRUE", "FALSE"}

\* The entry is a PrecertEntry built from the issuer's key hash and the leaf's
\* TBS without the extension.
EmitsPrecertEntry ==
  /\ call.status.code = "OK"
  /\ call.entry.type = "PRECERT_ENTRY"
  /\ ValueOf(call.entry, "precert_entry.pre_cert.issuer_key_hash")
       = <<SPKISha256Digest(call.input[2])>>
  /\ ValueOf(call.entry, "precert_entry.pre_cert.tbs_certificate")
       = <<TbsDer(call.input[1], "without sct list")>>

\* The entry is an X509Entry holding the leaf's DER.
EmitsX509Entry ==
  /\ call.status.code = "OK"
  /\ call.entry.type = "X509_ENTRY"
  /\ ValueOf(call.entry, "x509_entry.leaf_certificate")
       = <<DerEncoding(call.input[1])>>

\* C21 as stated: on a loaded chain with a definite extension answer and no
\* digest or encoding failure, X509ChainToEntry emits a PrecertEntry when the
\* leaf carries the extension and the chain has an issuer, and an X509Entry
\* with the leaf's DER in every other case, a leaf with the extension and no
\* issuer included.
C21_X509EntryWithoutIssuer ==
  DefiniteCall
  => IF HasExtension(call.input[1]) = "TRUE" /\ Len(call.input) >= 2
     THEN (SPKISha256DigestOk(call.input[2]) /\ TbsDerEncodingOk(call.input[1]))
          => EmitsPrecertEntry
     ELSE DerEncodingOk(call.input[1]) => EmitsX509Entry

\* C21: on a loaded chain with a definite extension answer X509ChainToEntry
\* returns true with a PrecertEntry only when the leaf carries the extension
\* and the chain has an issuer, and then with the issuer's SPKI hash and the
\* leaf's TBS without the extension; it returns true with an X509Entry only
\* when the leaf does not carry the extension, and then with the leaf's DER;
\* without a digest or encoding failure it returns true in both cases; for a
\* leaf with the extension and no issuer it returns false and leaves the
\* entry as it was.
C21_PrecertNeedsIssuer ==
  DefiniteCall
  => /\ call.status.code = "OK"
        => \/ /\ HasExtension(call.input[1]) = "TRUE"
              /\ Len(call.input) >= 2
              /\ EmitsPrecertEntry
           \/ /\ HasExtension(call.input[1]) = "FALSE"
              /\ EmitsX509Entry
     /\ (HasExtension(call.input[1]) = "TRUE" /\ Len(call.input) >= 2
         /\ SPKISha256DigestOk(call.input[2])
         /\ TbsDerEncodingOk(call.input[1]))
        => EmitsPrecertEntry
     /\ (HasExtension(call.input[1]) = "FALSE" /\ DerEncodingOk(call.input[1]))
        => EmitsX509Entry
     /\ (HasExtension(call.input[1]) = "TRUE" /\ Len(call.input) < 2)
        => (call.status.code # "OK" /\ call.entry = NoEntry)

\* X509ChainToEntry refused a leaf with the embedded SCT list and no issuer.
C21_Witness ==
  /\ call.fn = "X509ChainToEntry"
  /\ call.input = <<"embedded">>
  /\ call.status.code # "OK"
  /\ call.entry = NoEntry

\* C22: ProcessX509Submission on an empty chain returns INVALID_ARGUMENT
\* "empty submission" without calling the cert checker and without touching
\* the entry, and an add-chain request carrying an empty chain array is
\* answered 400 with that message.
C22_EmptySubmissionRejected ==
  \A r \in Requests :
    (/\ Answered(r)
     /\ reqs[r].path = "add-chain"
     /\ "local" \in reqs[r].routes
     /\ reqs[r].method = "POST"
     /\ reqs[r].input.body = ChainBody(<<>>))
    => /\ reqs[r].submission.status
            = Status("INVALID_ARGUMENT", "empty submission")
       /\ reqs[r].submission.validator = {}
       /\ reqs[r].submission.entry = NoEntry
       /\ reqs[r].reply = SendError(HTTP_BADREQUEST, "empty submission")
       /\ reqs[r].replies = 1

\* An add-chain request with an empty chain array was answered by the worker
\* that ran the submission.
C22_Witness ==
  \E r \in Requests :
    /\ Answered(r)
    /\ reqs[r].path = "add-chain"
    /\ reqs[r].input.body = ChainBody(<<>>)
    /\ <<"frontend", "worker">> \in reqs[r].ran
    /\ reqs[r].reply.code = HTTP_BADREQUEST

\* The fields that hold the leaf and the rest of the chain in the entry an
\* entry point builds.
LeafField(fn) ==
  IF fn = "ProcessX509Submission"
  THEN "x509_entry.leaf_certificate"
  ELSE "precert_entry.pre_certificate"

ChainField(fn) ==
  IF fn = "ProcessX509Submission"
  THEN "x509_entry.certificate_chain"
  ELSE "precert_entry.precertificate_chain"

\* C23: when ProcessX509Submission or ProcessPreCertSubmission succeeds, the
\* entry holds the chain as it stands after validation, leaf first: the leaf
\* field is the DER of its first certificate, and the chain list has one
\* element for each later certificate, its DER, in the chain's order.
C23_ChainEncodedInOrder ==
  (/\ call.fn \in {"ProcessX509Submission", "ProcessPreCertSubmission"}
   /\ call.status.code = "OK")
  => LET v == ValidatedChain(call.input)
         list == ValueOf(call.entry, ChainField(call.fn))
     IN /\ ValueOf(call.entry, LeafField(call.fn)) = <<DerEncoding(v[1])>>
        /\ Len(list) = Len(v) - 1
        /\ \A i \in 2..Len(v) : list[i - 1] = DerEncoding(v[i])

\* ProcessX509Submission succeeded on a leaf and its issuer, and the chain list
\* holds the issuer.
C23_Witness ==
  /\ call.fn = "ProcessX509Submission"
  /\ call.status.code = "OK"
  /\ call.input = <<"leaf", "ca">>
  /\ ValueOf(call.entry, "x509_entry.certificate_chain") = <<DerEncoding("ca")>>

\* C24: when the extension check on the leaf answers neither present nor
\* absent, X509ChainToEntry and SerializedTbs return false, and the entry is
\* neither a PrecertEntry nor an X509Entry: it is left as it was, and
\* SerializedTbs assigns no result.
C24_ExtensionTriValued ==
  (/\ call.fn \in {"X509ChainToEntry", "SerializedTbs"}
   /\ call.input # <<>>
   /\ HasExtension(call.input[1]) \notin {"TRUE", "FALSE"})
  => /\ call.status.code # "OK"
     /\ call.entry = NoEntry
     /\ call.result = <<>>

\* X509ChainToEntry refused a chain whose leaf's extension check failed.
C24_Witness ==
  /\ call.fn = "X509ChainToEntry"
  /\ call.input = <<"badext", "ca">>
  /\ call.status.code # "OK"

\* How many times a query string gives a parameter, and the value it gives it
\* the first time.
Occurrences(raw, param) ==
  IF raw.ok
  THEN Cardinality({i \in 1..Len(raw.pairs) : raw.pairs[i][1] = param})
  ELSE 0

FirstOccurrence(raw, param) ==
  raw.pairs[CHOOSE i \in 1..Len(raw.pairs) :
              /\ raw.pairs[i][1] = param
              /\ \A j \in 1..(i - 1) : raw.pairs[j][1] # param][2]

\* C25: GetParam returns true only when the query holds exactly one value for
\* the parameter, and then hands that value out; when the parameter is absent
\* or given more than once it returns false and the caller's string is as it
\* was. GetBoolParam is true exactly when the parameter is given once, with
\* the literal value "true".
C25_ParamExactlyOnce ==
  /\ call.fn = "GetParam"
     => LET raw == call.input[1]
            param == call.input[2]
            value == call.input[3]
        IN IF Occurrences(raw, param) = 1
           THEN /\ call.status.code = "OK"
                /\ call.result = FirstOccurrence(raw, param)
           ELSE /\ call.status.code # "OK"
                /\ call.result = value
  /\ call.fn = "GetBoolParam"
     => LET raw == call.input[1]
            param == call.input[2]
        IN call.result[1]
           = (/\ Occurrences(raw, param) = 1
              /\ FirstOccurrence(raw, param) = <<"t", "r", "u", "e">>)

\* GetParam refused a parameter given twice and left the caller's string.
C25_Witness ==
  /\ call.fn = "GetParam"
  /\ Occurrences(call.input[1], call.input[2]) = 2
  /\ call.input[3] = <<"o", "l", "d">>
  /\ call.status.code # "OK"
  /\ call.result = <<"o", "l", "d">>

\* Request r was handed to its local handler.
HandedToLocal(r) == Arrived(r) /\ "local" \in reqs[r].routes

\* C26: a request handed to a local handler has received no reply while its
\* task waits in the worker pool and exactly one reply, an error or a JSON
\* reply, once it is answered, never two; and with a worker pool that runs
\* every task it is given, every such request is eventually answered, by one
\* reply.
C26_ExactlyOneReply ==
  /\ [](\A r \in Requests :
          HandedToLocal(r)
          => /\ reqs[r].replies <= 1
             /\ reqs[r].pc = "pooled" => reqs[r].replies = 0
             /\ Answered(r) => /\ reqs[r].replies = 1
                               /\ reqs[r].reply.kind # "none")
  /\ \A r \in Requests :
       HandedToLocal(r)
       ~> (HandedToLocal(r) /\ Answered(r) /\ reqs[r].replies = 1)

\* A get-entries scan that met an entry it could not serialize was answered by
\* one error reply.
C26_Witness ==
  \E r \in Requests :
    /\ HandedToLocal(r)
    /\ Answered(r)
    /\ reqs[r].path = "get-entries"
    /\ reqs[r].input.db.corrupt # {}
    /\ reqs[r].reply = SendError(HTTP_INTERNAL, "Serialization failed.")
    /\ reqs[r].replies = 1

\* The status of the cert checker call an entry point makes for its input.
ValidatorStatus(fn, input) ==
  CASE fn = "ProcessSignedDataSubmission" -> CheckSignedData(input)
    [] fn = "ProcessX509Submission" -> CheckCertChain(input)
    [] fn = "ProcessPreCertSubmission" -> CheckPreCertChain(input)

\* C27 as stated: when the cert checker rejects a submission, each of
\* ProcessSignedDataSubmission, ProcessX509Submission and
\* ProcessPreCertSubmission returns the checker's status and leaves the entry
\* as it was before the call, with no type tag and no payload field created or
\* written.
C27_RejectionLeavesEntry ==
  (/\ call.fn \in {"ProcessSignedDataSubmission", "ProcessX509Submission",
                   "ProcessPreCertSubmission"}
   /\ call.validator # {}
   /\ ValidatorStatus(call.fn, call.input).code # "OK")
  => /\ call.status = ValidatorStatus(call.fn, call.input)
     /\ call.entry = NoEntry

\* C28: CopyFromClientLogEntry on a client entry whose leaf entry type is none
\* of X509, precert and signed data returns false and leaves the logged
\* certificate as it was; on one of the three it returns true, the stored
\* entry's type is the leaf's entry type, the signed-entry fields of that type
\* are the leaf's, and the SCT's timestamp and extensions are the leaf's.
C28_CopyFromLeaf ==
  call.fn = "CopyFromClientLogEntry"
  => LET leaf == call.input[1].leaf
         before == call.input[2]
         after == call.result[1]
     IN IF leaf.entry_type = "UNKNOWN_ENTRY_TYPE"
        THEN call.status.code # "OK" /\ after = before
        ELSE /\ call.status.code = "OK"
             /\ after.entry.type = leaf.entry_type
             /\ after.sct.timestamp = leaf.timestamp
             /\ after.sct.extensions = leaf.extensions
             /\ leaf.entry_type = "X509_ENTRY"
                => ValueOf(after.entry, "x509_entry.leaf_certificate")
                     = <<leaf.signed_entry.x509>>
             /\ leaf.entry_type = "PRECERT_ENTRY"
                => /\ ValueOf(after.entry, "precert_entry.pre_cert.issuer_key_hash")
                        = <<leaf.signed_entry.issuer_key_hash>>
                   /\ ValueOf(after.entry, "precert_entry.pre_cert.tbs_certificate")
                        = <<leaf.signed_entry.tbs_certificate>>
             /\ leaf.entry_type = "SIGNED_DATA_ENTRY"
                => /\ ValueOf(after.entry, "signed_data_entry.keyid")
                        = <<leaf.signed_entry.keyid>>
                   /\ ValueOf(after.entry, "signed_data_entry.data")
                        = <<leaf.signed_entry.data>>

\* CopyFromClientLogEntry refused a leaf of an unknown entry type and left a
\* logged certificate that held an earlier entry.
C28_Witness ==
  /\ call.fn = "CopyFromClientLogEntry"
  /\ call.input[1].leaf.entry_type = "UNKNOWN_ENTRY_TYPE"
  /\ call.input[2] # Clear
  /\ call.status.code # "OK"
  /\ call.result[1] = call.input[2]

====
